---------------------------- MODULE Spec2Model ----------------------------
(***************************************************************************)
(* typasaur: JSON -> TypeScript model generator.                           *)
(*                                                                         *)
(* The model follows the two-stage pipeline of the CLI:                    *)
(*   inferTypeFromValue (infer.js)  : JSON value  -> TypeNode tree         *)
(*   renderTypescriptFromTree       : TypeNode    -> declarations          *)
(*                                                                         *)
(* Representation.                                                         *)
(*  - A JavaScript string is a sequence of one-character strings, so that  *)
(*    regular expressions, slicing, concatenation and upper-casing are     *)
(*    computed and not assumed.                                            *)
(*  - A JSON value is a record tagged by t (the result of typeof /         *)
(*    Array.isArray / === null).                                           *)
(*  - A TypeNode is a record tagged by kind, as in the source.  A Map is   *)
(*    a sequence of entries in insertion order, a Set a sequence without   *)
(*    duplicates in insertion order.                                       *)
(*  - The identity of an object node of a tree is its path from the root   *)
(*    (trees built by inference share no node).                            *)
(***************************************************************************)
EXTENDS Integers, Sequences, FiniteSets, TLC

(***************************************************************************)
(* Characters and strings                                                  *)
(***************************************************************************)
Digits == <<"0", "1", "2", "3", "4", "5", "6", "7", "8", "9">>

LowerLetters ==
    <<"a", "b", "c", "d", "e", "f", "g", "h", "i", "j", "k", "l", "m",
      "n", "o", "p", "q", "r", "s", "t", "u", "v", "w", "x", "y", "z">>

UpperLetters ==
    <<"A", "B", "C", "D", "E", "F", "G", "H", "I", "J", "K", "L", "M",
      "N", "O", "P", "Q", "R", "S", "T", "U", "V", "W", "X", "Y", "Z">>

Range(f) == {f[i] : i \in DOMAIN f}

IsDigit(c) == c \in Range(Digits)

IsLower(c) == c \in Range(LowerLetters)

IsUpper(c) == c \in Range(UpperLetters)

IsLetter(c) == IsLower(c) \/ IsUpper(c)

IndexOf(seq, x) == CHOOSE i \in DOMAIN seq : seq[i] = x

\* String.prototype.toUpperCase on one character (ASCII range of the model)
ToUpperChar(c) == IF IsLower(c) THEN UpperLetters[IndexOf(LowerLetters, c)] ELSE c

\* String.prototype.toLowerCase on one character
ToLowerChar(c) == IF IsUpper(c) THEN LowerLetters[IndexOf(UpperLetters, c)] ELSE c

\* text.slice(from) with 0-based from, as SubSeq
SliceFrom(s, from) == SubSeq(s, from + 1, Len(s))

\* text.slice(0, -n)
DropLast(s, n) == SubSeq(s, 1, Len(s) - n)

\* the last n characters, lower-cased (for the /.../i suffix tests)
LowerSuffix(s, n) ==
    IF Len(s) < n THEN <<>>
    ELSE [i \in 1..n |-> ToLowerChar(s[Len(s) - n + i])]

RECURSIVE Flatten(_)
\* Array.prototype.join("") of a list of strings
Flatten(parts) ==
    IF parts = <<>> THEN <<>> ELSE Head(parts) \o Flatten(Tail(parts))

RECURSIVE DecimalDigits(_)
\* Number -> string conversion of a non-negative integer (baseName + n)
DecimalDigits(n) ==
    IF n < 10 THEN <<Digits[n + 1]>>
    ELSE DecimalDigits(n \div 10) \o <<Digits[(n % 10) + 1]>>

\* JSON.stringify of a string: quotes, with quote and backslash escaped
JsonStringifyString(s) ==
    <<"\"">> \o
    Flatten([i \in DOMAIN s |->
        IF s[i] = "\"" THEN <<"\\", "\"">>
        ELSE IF s[i] = "\\" THEN <<"\\", "\\">>
        ELSE <<s[i]>>]) \o
    <<"\"">>

\* JSON.stringify of an array of strings
JsonStringifyStringArray(arr) ==
    <<"[">> \o
    Flatten([i \in DOMAIN arr |->
        (IF i = 1 THEN <<>> ELSE <<",">>) \o JsonStringifyString(arr[i])]) \o
    <<"]">>

RECURSIVE Unique(_)
\* [...new Set(list)] : distinct values in first-seen order
Unique(list) ==
    IF list = <<>> THEN <<>>
    ELSE LET init == Unique(DropLast(list, 1))
             last == list[Len(list)]
         IN  IF last \in Range(init) THEN init ELSE Append(init, last)

(***************************************************************************)
(* utils.js                                                                *)
(***************************************************************************)
AllDigits(s, from, to) == \A i \in from..to : IsDigit(s[i])

\* (?:Z|[+-]\d{2}:\d{2})?$ on the rest of the string
MatchesZoneAndEnd(r) ==
    \/ r = <<>>
    \/ r = <<"Z">>
    \/ /\ Len(r) = 6
       /\ r[1] \in {"+", "-"}
       /\ AllDigits(r, 2, 3)
       /\ r[4] = ":"
       /\ AllDigits(r, 5, 6)

\* the lengths the optional group (?::\d{2}(?:\.\d{1,3})?)? can consume
SecondsLengths(r) ==
    {0} \cup
    (IF Len(r) >= 3 /\ r[1] = ":" /\ AllDigits(r, 2, 3)
     THEN {3} \cup {4 + k : k \in {j \in 1..3 :
                        /\ Len(r) >= 4 + j
                        /\ r[4] = "."
                        /\ AllDigits(r, 5, 4 + j)}}
     ELSE {})

\* [ T]\d{2}:\d{2} followed by the optional seconds and zone groups
MatchesTimeAndEnd(r) ==
    /\ Len(r) >= 6
    /\ r[1] \in {" ", "T"}
    /\ AllDigits(r, 2, 3)
    /\ r[4] = ":"
    /\ AllDigits(r, 5, 6)
    /\ \E n \in SecondsLengths(SliceFrom(r, 6)) :
            MatchesZoneAndEnd(SliceFrom(r, 6 + n))

\* /^\d{4}-\d{2}-\d{2}(?:[ T]\d{2}:\d{2}(?::\d{2}(?:\.\d{1,3})?)?(?:Z|[+-]\d{2}:\d{2})?)?$/
isIsoLikeDateString(s) ==
    /\ Len(s) >= 10
    /\ AllDigits(s, 1, 4)
    /\ s[5] = "-"
    /\ AllDigits(s, 6, 7)
    /\ s[8] = "-"
    /\ AllDigits(s, 9, 10)
    /\ \/ Len(s) = 10
       \/ MatchesTimeAndEnd(SliceFrom(s, 10))

\* /^[A-Za-z_][A-Za-z0-9_]*$/
isValidTypescriptIdentifier(name) ==
    /\ Len(name) >= 1
    /\ IsLetter(name[1]) \/ name[1] = "_"
    /\ \A i \in 2..Len(name) : IsLetter(name[i]) \/ IsDigit(name[i]) \/ name[i] = "_"

\* mutant: the final s is removed also after another s (no /ss$/ guard)
MutSingularizeWordNoSsGuard(word) ==
    IF LowerSuffix(word, 3) = <<"i", "e", "s">> THEN DropLast(word, 3) \o <<"y">>
    ELSE IF LowerSuffix(word, 3) = <<"s", "e", "s">> THEN DropLast(word, 2) \o <<"s">>
    ELSE IF \/ LowerSuffix(word, 3) \in {<<"x", "e", "s">>, <<"z", "e", "s">>}
            \/ LowerSuffix(word, 4) \in {<<"c", "h", "e", "s">>, <<"s", "h", "e", "s">>}
         THEN DropLast(word, 2)
    ELSE IF LowerSuffix(word, 1) = <<"s">> THEN DropLast(word, 1)
    ELSE IF word # <<>> THEN word ELSE <<"I", "t", "e", "m">>

\* singularizeWord: the four suffix rules in order, then `t || "Item"`
singularizeWord(word) ==
    LET t == word   \* String(word || "") : word is a string here
    IN  IF LowerSuffix(t, 3) = <<"i", "e", "s">> THEN DropLast(t, 3) \o <<"y">>
        ELSE IF LowerSuffix(t, 3) = <<"s", "e", "s">> THEN DropLast(t, 2) \o <<"s">>
        ELSE IF \/ LowerSuffix(t, 3) \in {<<"x", "e", "s">>, <<"z", "e", "s">>}
                \/ LowerSuffix(t, 4) \in {<<"c", "h", "e", "s">>, <<"s", "h", "e", "s">>}
             THEN DropLast(t, 2)
        ELSE IF LowerSuffix(t, 1) = <<"s">> /\ LowerSuffix(t, 2) # <<"s", "s">>
             THEN DropLast(t, 1)
        ELSE IF t # <<>> THEN t ELSE <<"I", "t", "e", "m">>

(***************************************************************************)
(* TypeNode constructors                                                   *)
(***************************************************************************)
AnyNode == [kind |-> "any"]

NumberNode == [kind |-> "number"]

BooleanNode == [kind |-> "boolean"]

\* { kind: "string", isDate, enumValues?, sample? }.  An absent isDate is
\* read only through !!x, x || y and x ? : and is kept as FALSE.
StringNode(isDate, hasEnum, enumValues, hasSample, sample) ==
    [kind |-> "string", isDate |-> isDate,
     hasEnum |-> hasEnum, enumValues |-> enumValues,
     hasSample |-> hasSample, sample |-> sample]

ArrayNode(items) == [kind |-> "array", items |-> items]

\* fields: the Map key -> {type, required} in insertion order
ObjectNode(fields) == [kind |-> "object", fields |-> fields]

UnionNode(types) == [kind |-> "union", types |-> types]

FieldEntry(key, type, required) == [key |-> key, type |-> type, required |-> required]

\* Map.prototype.has / get on a field map
FieldKeys(fields) == [i \in DOMAIN fields |-> fields[i].key]

HasField(fields, k) == \E i \in DOMAIN fields : fields[i].key = k

GetField(fields, k) == fields[CHOOSE i \in DOMAIN fields : fields[i].key = k]

(***************************************************************************)
(* infer.js : equality, unification, normalisation                         *)
(***************************************************************************)
RECURSIVE areTypesEqual(_, _)
areTypesEqual(a, b) ==
    IF a.kind # b.kind THEN FALSE
    ELSE CASE a.kind \in {"any", "number", "boolean"} -> TRUE
           [] a.kind = "string" ->
                /\ a.isDate = b.isDate
                /\ JsonStringifyStringArray(IF a.hasEnum THEN a.enumValues ELSE <<>>)
                   = JsonStringifyStringArray(IF b.hasEnum THEN b.enumValues ELSE <<>>)
           [] a.kind = "array" -> areTypesEqual(a.items, b.items)
           [] a.kind = "union" ->
                /\ Len(a.types) = Len(b.types)
                /\ \A i \in DOMAIN a.types : areTypesEqual(a.types[i], b.types[i])
           [] a.kind = "object" ->
                /\ Len(a.fields) = Len(b.fields)
                /\ \A i \in DOMAIN a.fields :
                      LET fa == a.fields[i]
                      IN  /\ HasField(b.fields, fa.key)
                          /\ fa.required = GetField(b.fields, fa.key).required
                          /\ areTypesEqual(fa.type, GetField(b.fields, fa.key).type)

\* mergeStringLiterals(a, b): [hasEnum, enumValues] of the merged node
mergeStringLiterals(a, b) ==
    IF ~a.hasEnum /\ ~b.hasEnum
    THEN [hasEnum |-> FALSE, enumValues |-> <<>>]
    ELSE [hasEnum |-> TRUE,
          enumValues |-> Unique((IF a.hasEnum THEN a.enumValues ELSE <<>>) \o
                                (IF b.hasEnum THEN b.enumValues ELSE <<>>))]

RECURSIVE MutFlattenDedupeKeepsNested(_, _)
\* mutant: a member that is a union is kept as a member, not spread
MutFlattenDedupeKeepsNested(types, flat) ==
    IF types = <<>> THEN flat
    ELSE IF ~(\E i \in DOMAIN flat : areTypesEqual(flat[i], Head(types)))
         THEN MutFlattenDedupeKeepsNested(Tail(types), Append(flat, Head(types)))
    ELSE MutFlattenDedupeKeepsNested(Tail(types), flat)

RECURSIVE FlattenDedupe(_, _)
\* the loop of normalizeUnionType over union.types, flat being the accumulator
FlattenDedupe(types, flat) ==
    IF types = <<>> THEN flat
    ELSE LET t == Head(types)
         IN  IF t.kind = "union" THEN FlattenDedupe(Tail(types), flat \o t.types)
             ELSE IF ~(\E i \in DOMAIN flat : areTypesEqual(flat[i], t))
                  THEN FlattenDedupe(Tail(types), Append(flat, t))
             ELSE FlattenDedupe(Tail(types), flat)

normalizeUnionType(union) ==
    IF \E i \in DOMAIN union.types : union.types[i].kind = "any" THEN AnyNode
    ELSE LET flat == FlattenDedupe(union.types, <<>>)
         IN  IF Len(flat) = 1 THEN flat[1] ELSE UnionNode(flat)

\* mutant: one required side is enough
MutRequiredBothEither(af, bf) == af.required \/ bf.required

\* required flag of a key present on both sides
RequiredBoth(af, bf) == af.required /\ bf.required

\* mutant: a key missing on one side is still marked required
MutRequiredOneSideKept == TRUE

\* required flag of a key present on one side only
RequiredOneSide == FALSE

\* mutant: Any is taken as "no information" and the other operand is kept
MutDominanceKeepsOther(a, b) == IF a.kind = "any" THEN b ELSE a

\* the result when one operand is Any: return { kind: "any" }
DominanceResult(a, b) == AnyNode

\* mutant: of two equal operands the second is returned
MutEqualOperandsReturnSecond(a, b) == b

\* the result when the operands are equal: return a
EqualOperandsResult(a, b) == a

\* mutant: the date flag of the first operand only
MutMergedIsDateFirst(a, b) == a.isDate

\* isDate: !!(a.isDate || b.isDate)
MergedIsDate(a, b) == a.isDate \/ b.isDate

RECURSIVE unifyTypes(_, _)
unifyTypes(a, b) ==
    IF areTypesEqual(a, b) THEN EqualOperandsResult(a, b)
    ELSE IF a.kind = "any" \/ b.kind = "any" THEN DominanceResult(a, b)
    ELSE IF a.kind = "union" THEN normalizeUnionType(UnionNode(Append(a.types, b)))
    ELSE IF b.kind = "union" THEN normalizeUnionType(UnionNode(<<a>> \o b.types))
    ELSE IF a.kind = "string" /\ b.kind = "string"
         THEN LET mergedEnum == mergeStringLiterals(a, b)
              IN  StringNode(MergedIsDate(a, b),
                             mergedEnum.hasEnum, mergedEnum.enumValues, FALSE, <<>>)
    ELSE IF a.kind = "array" /\ b.kind = "array"
         THEN ArrayNode(unifyTypes(a.items, b.items))
    ELSE IF a.kind = "object" /\ b.kind = "object"
         THEN LET keys == Unique(FieldKeys(a.fields) \o FieldKeys(b.fields))
              IN  ObjectNode([i \in DOMAIN keys |->
                    LET k == keys[i]
                    IN  IF HasField(a.fields, k) /\ HasField(b.fields, k)
                        THEN FieldEntry(k,
                               unifyTypes(GetField(a.fields, k).type,
                                          GetField(b.fields, k).type),
                               RequiredBoth(GetField(a.fields, k), GetField(b.fields, k)))
                        ELSE IF HasField(a.fields, k)
                        THEN FieldEntry(k, GetField(a.fields, k).type, RequiredOneSide)
                        ELSE FieldEntry(k, GetField(b.fields, k).type, RequiredOneSide)])
    ELSE normalizeUnionType(UnionNode(<<a, b>>))

\* Array.prototype.reduce without an initial value throws on an empty array:
\* the TypeError in place of the node
ReduceOfEmptyArray == [kind |-> "TypeError"]

\* mutant: the fold is dropped and the first element's type is taken
MutUnifyTypesManyFirst(nodes) == nodes[1]

RECURSIVE unifyTypesMany(_)
\* nodes.reduce((a, b) => unifyTypes(a, b)) : a left fold without initial value
unifyTypesMany(nodes) ==
    IF nodes = <<>> THEN ReduceOfEmptyArray
    ELSE IF Len(nodes) = 1 THEN nodes[1]
    ELSE unifyTypes(unifyTypesMany(DropLast(nodes, 1)), nodes[Len(nodes)])

(***************************************************************************)
(* JSON values (the result of JSON.parse)                                  *)
(***************************************************************************)
JNull == [t |-> "null"]

JNumber == [t |-> "number"]

JBoolean == [t |-> "boolean"]

JString(s) == [t |-> "string", s |-> s]

JArray(elems) == [t |-> "array", elems |-> elems]

\* entries: Object.entries(value), <<key, value>> pairs with distinct keys
JObject(entries) == [t |-> "object", entries |-> entries]

\* options of inferTypeFromValue
InferOptions(dates, min, max) ==
    [detectDatesFromIsoStrings |-> dates,
     stringEnumMinUniqueValues |-> min,
     stringEnumMaxUniqueValues |-> max]

\* s.length <= 20 in the token test
MaxTokenLength == 20

\* /^[A-Za-z0-9_-]+$/.test(s)
IsTokenRegexMatch(s) ==
    /\ Len(s) >= 1
    /\ \A i \in DOMAIN s : IsLetter(s[i]) \/ IsDigit(s[i]) \/ s[i] \in {"_", "-"}

\* unique.every(s => s.length > 0 && s.length <= 20 && /^[A-Za-z0-9_-]+$/.test(s))
tokenLike(unique) ==
    \A i \in DOMAIN unique :
        /\ Len(unique[i]) > 0
        /\ Len(unique[i]) <= MaxTokenLength
        /\ IsTokenRegexMatch(unique[i])

\* mutant: the lower threshold is compared strictly
MutWithinStrictMin(unique, options) ==
    /\ Len(unique) > options.stringEnumMinUniqueValues
    /\ Len(unique) <= options.stringEnumMaxUniqueValues

\* unique.length >= min && unique.length <= max
within(unique, options) ==
    /\ Len(unique) >= options.stringEnumMinUniqueValues
    /\ Len(unique) <= options.stringEnumMaxUniqueValues

\* mutant: the option is not consulted
MutInferIsDateIgnoresOption(s, options) == isIsoLikeDateString(s)

\* isDate: options.detectDatesFromIsoStrings && isIsoLikeDateString(value)
InferIsDate(s, options) ==
    options.detectDatesFromIsoStrings /\ isIsoLikeDateString(s)

\* mutant: the empty array is not set apart
MutIsEmptyArrayNever(elems) == FALSE

\* value.length === 0
IsEmptyArray(elems) == Len(elems) = 0

RECURSIVE inferTypeFromValue(_, _)
inferTypeFromValue(value, options) ==
    IF value.t = "null" THEN AnyNode
    ELSE IF value.t = "string"
         THEN StringNode(InferIsDate(value.s, options), FALSE, <<>>, TRUE, value.s)
    ELSE IF value.t = "number" THEN NumberNode
    ELSE IF value.t = "boolean" THEN BooleanNode
    ELSE IF value.t = "array"
         THEN IF IsEmptyArray(value.elems) THEN ArrayNode(AnyNode)
              ELSE LET allStrings == \A i \in DOMAIN value.elems : value.elems[i].t = "string"
                       unique == Unique([i \in DOMAIN value.elems |-> value.elems[i].s])
                   IN  IF allStrings /\ within(unique, options) /\ tokenLike(unique)
                       THEN ArrayNode(StringNode(FALSE, TRUE, unique, FALSE, <<>>))
                       ELSE ArrayNode(unifyTypesMany(
                                [i \in DOMAIN value.elems |->
                                    inferTypeFromValue(value.elems[i], options)]))
    ELSE IF value.t = "object"
         THEN ObjectNode([i \in DOMAIN value.entries |->
                FieldEntry(value.entries[i][1],
                           inferTypeFromValue(value.entries[i][2], options),
                           value.entries[i][2].t # "undefined")])
    ELSE AnyNode

(***************************************************************************)
(* String.prototype.localeCompare (ICU root collation, the default of a    *)
(* Node build with Intl) on the characters of the model: the primary       *)
(* level orders space < _ < - < digits < letters without regard to case;   *)
(* strings equal at the primary level are ordered by case, lower first.    *)
(***************************************************************************)
PrimaryWeight(c) ==
    IF c = " " THEN 1
    ELSE IF c = "_" THEN 2
    ELSE IF c = "-" THEN 3
    ELSE IF IsDigit(c) THEN 10 + IndexOf(Digits, c)
    ELSE IF IsLetter(c) THEN 30 + IndexOf(LowerLetters, ToLowerChar(c))
    ELSE 100

\* 0 for a lower-case or caseless character, 1 for an upper-case one
TertiaryWeight(c) == IF IsUpper(c) THEN 1 ELSE 0

PrimaryWeights(s) == [i \in DOMAIN s |-> PrimaryWeight(s[i])]

TertiaryWeights(s) == [i \in DOMAIN s |-> TertiaryWeight(s[i])]

RECURSIVE CompareWeights(_, _, _)
\* lexicographic comparison of two weight sequences from position i: -1, 0, 1
CompareWeights(a, b, i) ==
    IF i > Len(a) /\ i > Len(b) THEN 0
    ELSE IF i > Len(a) THEN -1
    ELSE IF i > Len(b) THEN 1
    ELSE IF a[i] < b[i] THEN -1
    ELSE IF a[i] > b[i] THEN 1
    ELSE CompareWeights(a, b, i + 1)

localeCompare(a, b) ==
    LET primary == CompareWeights(PrimaryWeights(a), PrimaryWeights(b), 1)
    IN  IF primary # 0 THEN primary
        ELSE CompareWeights(TertiaryWeights(a), TertiaryWeights(b), 1)

\* the comparator of the field sort: ([a], [b]) => a.localeCompare(b)
FieldOrder(a, b) == localeCompare(a, b)

RECURSIVE SortFields(_)
\* [...fields.entries()].sort(comparator): a stable sort, here by insertion
SortFields(fields) ==
    IF fields = <<>> THEN <<>>
    ELSE LET init == SortFields(DropLast(fields, 1))
             last == fields[Len(fields)]
             before == Cardinality({i \in DOMAIN init : FieldOrder(init[i].key, last.key) <= 0})
         IN  SubSeq(init, 1, before) \o <<last>> \o SubSeq(init, before + 1, Len(init))

(***************************************************************************)
(* renderTypescriptFromTree                                                *)
(*                                                                         *)
(* The closures of the call share usedTypeNames, objectNodeToTypeName and  *)
(* namedTypeDefinitions; here they are the record st that every function   *)
(* takes and returns: [used, memo, defs].                                  *)
(***************************************************************************)
RenderState(used, memo, defs) == [used |-> used, memo |-> memo, defs |-> defs]

\* path steps: a field, the items of an array, the i-th member of a union
FieldStep(key) == <<"f">> \o key

ItemsStep == <<"i">>

MemberStep(i) == <<"u">> \o DecimalDigits(i)

TypeKeyword(useInterfaceKeyword) ==
    IF useInterfaceKeyword THEN <<"i", "n", "t", "e", "r", "f", "a", "c", "e">> ELSE <<"t", "y", "p", "e">>

RECURSIVE FirstFreeSuffix(_, _, _)
\* let n = 2; while (usedTypeNames.has(baseName + n)) n++;
FirstFreeSuffix(used, baseName, n) ==
    IF (baseName \o DecimalDigits(n)) \in Range(used)
    THEN FirstFreeSuffix(used, baseName, n + 1)
    ELSE n

\* mutant: a suffixed name is returned without being added to usedTypeNames
MutNextAvailableTypeNameForgetsSuffixed(used, baseName) ==
    IF baseName \notin Range(used)
    THEN [name |-> baseName, used |-> Append(used, baseName)]
    ELSE [name |-> baseName \o DecimalDigits(FirstFreeSuffix(used, baseName, 2)),
          used |-> used]

\* nextAvailableTypeName(baseName): [name, used] after the claim
nextAvailableTypeName(used, baseName) ==
    IF baseName \notin Range(used)
    THEN [name |-> baseName, used |-> Append(used, baseName)]
    ELSE LET finalName == baseName \o DecimalDigits(FirstFreeSuffix(used, baseName, 2))
         IN  [name |-> finalName, used |-> Append(used, finalName)]

\* mutant: the key is used as it is, the first character not upper-cased
MutNameFromJsonKeyAsIs(jsonKey, isArrayItem) ==
    LET baseRaw == IF isArrayItem
                   THEN singularizeWord(IF jsonKey # <<>> THEN jsonKey ELSE <<"I", "t", "e", "m">>)
                   ELSE (IF jsonKey # <<>> THEN jsonKey ELSE <<"M", "o", "d", "e", "l">>)
    IN  IF baseRaw = <<>> THEN <<"M", "o", "d", "e", "l">> ELSE baseRaw

nameFromJsonKey(jsonKey, isArrayItem) ==
    LET baseRaw == IF isArrayItem
                   THEN singularizeWord(IF jsonKey # <<>> THEN jsonKey ELSE <<"I", "t", "e", "m">>)
                   ELSE (IF jsonKey # <<>> THEN jsonKey ELSE <<"M", "o", "d", "e", "l">>)
    IN  IF baseRaw = <<>> THEN <<"M", "o", "d", "e", "l">>
        ELSE <<ToUpperChar(baseRaw[1])>> \o SliceFrom(baseRaw, 1)

\* objectNodeToTypeName.has / get, a node being identified by its path
MemoHas(memo, path) == \E i \in DOMAIN memo : memo[i].path = path

MemoGet(memo, path) == memo[CHOOSE i \in DOMAIN memo : memo[i].path = path].name

\* mutant: only a union item is parenthesized
MutNeedsParensUnionOnly(itemNode) == itemNode.kind = "union"

\* needsParens of renderArrayType
needsParens(itemNode) ==
    \/ itemNode.kind = "union"
    \/ (itemNode.kind = "string" /\ itemNode.hasEnum /\ Len(itemNode.enumValues) > 0)

\* list.join(sep)
Join(list, sep) ==
    Flatten([i \in DOMAIN list |-> (IF i = 1 THEN <<>> ELSE sep) \o list[i]])

\* which branch of the field loop of renderTypeNode a field type takes
FieldBranch(type) ==
    IF type.kind = "object" THEN "object"
    ELSE IF type.kind = "array" /\ type.items.kind = "object" THEN "arrayOfObject"
    ELSE IF type.kind = "array" THEN "array"
    ELSE "other"

\* `export ${typeKeyword} ${name} = ${body};`
Declaration(kw, name, bodyText) ==
    <<"e", "x", "p", "o", "r", "t", " ">> \o kw \o <<" ">> \o name \o <<" ", "=", " ">> \o bodyText \o <<";">>

\* `  ${safeKey}${optional}: ${fieldTypeText};`
FieldLineText(fieldInfo, fieldTypeText) ==
    <<" ", " ">>
    \o (IF isValidTypescriptIdentifier(fieldInfo.key) THEN fieldInfo.key
        ELSE JsonStringifyString(fieldInfo.key))
    \o (IF fieldInfo.required THEN <<>> ELSE <<"?">>)
    \o <<":", " ">> \o fieldTypeText \o <<";">>

\* the name returned by ensureNamedTypeForObject as a field type text
NamedReference(named, suffix) == [text |-> named.name \o suffix, st |-> named.st]

\* needsParens ? `(${inner})[]` : `${inner}[]`
WrapArrayItem(itemNode, inner) ==
    [text |-> IF needsParens(itemNode)
              THEN <<"(">> \o inner.text \o <<")", "[", "]">>
              ELSE inner.text \o <<"[", "]">>,
     st |-> inner.st]

\* (...).join(" | ") of the rendered members
JoinMembers(r) == [text |-> Join(r.parts, <<" ", "|", " ">>), st |-> r.st]

\* lines.push("}"); return lines.join("\n")
CloseObjectBody(r) == [text |-> Join(Append(r.lines, <<"}">>), <<"\n">>), st |-> r.st]

\* mutant: the declaration is put in front of the declarations pushed so far
MutPushDeclarationInFront(kw, finalName, body) ==
    [name |-> finalName,
     st |-> RenderState(body.st.used, body.st.memo,
                        <<Declaration(kw, finalName, body.text)>> \o body.st.defs)]

\* namedTypeDefinitions.push(...): the declaration follows the body's own pushes
PushDeclaration(kw, finalName, body) ==
    [name |-> finalName,
     st |-> RenderState(body.st.used, body.st.memo,
                        Append(body.st.defs, Declaration(kw, finalName, body.text)))]

RECURSIVE renderTypeNode(_, _, _, _, _)
RECURSIVE renderArrayType(_, _, _, _, _)
RECURSIVE ensureNamedTypeForObject(_, _, _, _, _, _)
RECURSIVE RenderMembers(_, _, _, _, _, _, _)
RECURSIVE RenderFieldLines(_, _, _, _, _, _)

\* the member just rendered is kept and the next one rendered
PushMember(types, i, path, parentJsonKey, kw, parts, r) ==
    RenderMembers(types, i + 1, path, parentJsonKey, kw, r.st, Append(parts, r.text))

\* typeNode.types.map(t => renderTypeNode(t, parentJsonKey, inArray)) from member i
RenderMembers(types, i, path, parentJsonKey, kw, st, parts) ==
    IF i > Len(types) THEN [parts |-> parts, st |-> st]
    ELSE PushMember(types, i, path, parentJsonKey, kw, parts,
                    renderTypeNode(types[i], path \o <<MemberStep(i)>>, parentJsonKey, kw, st))

\* fieldTypeText of one field, by the branch of the field loop it takes
RenderFieldType(branch, fieldInfo, fpath, kw, st) ==
    IF branch = "object"
    THEN NamedReference(
             ensureNamedTypeForObject(fieldInfo.type, fpath, fieldInfo.key, FALSE, kw, st),
             <<>>)
    ELSE IF branch = "arrayOfObject"
    THEN NamedReference(
             ensureNamedTypeForObject(fieldInfo.type.items, fpath \o <<ItemsStep>>,
                                      fieldInfo.key, TRUE, kw, st),
             <<"[", "]">>)
    ELSE IF branch = "array"
    THEN renderArrayType(fieldInfo.type.items, fpath \o <<ItemsStep>>, fieldInfo.key, kw, st)
    ELSE renderTypeNode(fieldInfo.type, fpath, fieldInfo.key, kw, st)

\* lines.push(...) of the field just rendered, then the next field
PushFieldLine(sorted, i, path, kw, lines, r) ==
    RenderFieldLines(sorted, i + 1, path, kw, r.st,
                     Append(lines, FieldLineText(sorted[i], r.text)))

\* for (const [fieldName, fieldInfo] of sorted) { ... lines.push(...) } from field i
RenderFieldLines(sorted, i, path, kw, st, lines) ==
    IF i > Len(sorted) THEN [lines |-> lines, st |-> st]
    ELSE PushFieldLine(sorted, i, path, kw, lines,
                       RenderFieldType(FieldBranch(sorted[i].type), sorted[i],
                                       path \o <<FieldStep(sorted[i].key)>>, kw, st))

\* the rest of ensureNamedTypeForObject once the name is claimed: the node is
\* recorded under the name, its body rendered, the declaration pushed
DeclareNamedType(objectNode, path, jsonKeyForThisObject, kw, st, claimed) ==
    PushDeclaration(kw, claimed.name,
        renderTypeNode(objectNode, path, jsonKeyForThisObject, kw,
                       RenderState(claimed.used,
                                   Append(st.memo, [path |-> path, name |-> claimed.name]),
                                   st.defs)))

ensureNamedTypeForObject(objectNode, path, jsonKeyForThisObject, isArrayItem, kw, st) ==
    IF MemoHas(st.memo, path) THEN [name |-> MemoGet(st.memo, path), st |-> st]
    ELSE DeclareNamedType(objectNode, path, jsonKeyForThisObject, kw, st,
             nextAvailableTypeName(st.used,
                                   nameFromJsonKey(jsonKeyForThisObject, isArrayItem)))

renderArrayType(itemNode, path, parentArrayJsonKey, kw, st) ==
    WrapArrayItem(itemNode, renderTypeNode(itemNode, path, parentArrayJsonKey, kw, st))

renderTypeNode(typeNode, path, parentJsonKey, kw, st) ==
    CASE typeNode.kind = "any" -> [text |-> <<"a", "n", "y">>, st |-> st]
      [] typeNode.kind = "number" -> [text |-> <<"n", "u", "m", "b", "e", "r">>, st |-> st]
      [] typeNode.kind = "boolean" -> [text |-> <<"b", "o", "o", "l", "e", "a", "n">>, st |-> st]
      [] typeNode.kind = "string" ->
            IF typeNode.hasEnum /\ Len(typeNode.enumValues) > 0
            THEN [text |-> Join([i \in DOMAIN typeNode.enumValues |->
                                    JsonStringifyString(typeNode.enumValues[i])], <<" ", "|", " ">>),
                  st |-> st]
            ELSE [text |-> IF typeNode.isDate THEN <<"s", "t", "r", "i", "n", "g", " ", "|", " ", "D", "a", "t", "e">> ELSE <<"s", "t", "r", "i", "n", "g">>,
                  st |-> st]
      [] typeNode.kind = "union" ->
            JoinMembers(RenderMembers(typeNode.types, 1, path, parentJsonKey, kw, st, <<>>))
      [] typeNode.kind = "array" ->
            renderArrayType(typeNode.items, path \o <<ItemsStep>>, parentJsonKey, kw, st)
      [] typeNode.kind = "object" ->
            CloseObjectBody(RenderFieldLines(SortFields(typeNode.fields), 1, path, kw, st,
                                             <<<<"{">>>>))

\* the header comment block, trimmed
header ==
    Flatten(<<
        <<"/", "*", "*", "\n">>,
        <<" ", "*", " ", "G", "e", "n", "e", "r", "a", "t", "e", "d", " ", "b", "y", " ", "t", "y", "p", "a", "s", "a", "u", "r", "\n">>,
        <<" ", "*", "\n">>,
        <<" ", "*", " ", " ", " ", " ", " ", " ", " ", " ", " ", " ", " ", " ", " ", " ", " ", " ", " ", " ", " ", " ", "_", "_", "\n">>,
        <<" ", "*", " ", " ", " ", " ", " ", " ", " ", " ", " ", " ", " ", " ", " ", " ", " ", " ", " ", " ", " ", "/", " ", "_", ")", "\n">>,
        <<" ", "*", " ", " ", " ", " ", " ", " ", " ", " ", " ", " ", ".", "-", "^", "^", "^", "-", "/", " ", "/", "\n">>,
        <<" ", "*", " ", " ", " ", " ", " ", " ", "_", "_", "/", " ", " ", " ", " ", " ", " ", " ", "/", "\n">>,
        <<" ", "*", " ", " ", " ", " ", " ", "<", "_", "_", ".", "|", "_", "|", "-", "|", "_", "|", "\n">>,
        <<" ", "*", "\n">>,
        <<" ", "*", " ", "J", "S", "O", "N", " ", "t", "o", " ", "T", "y", "p", "e", "S", "c", "r", "i", "p", "t", " ", "M", "o", "d", "e", "l", " ", "C", "L", "I", "\n">>,
        <<" ", "*", "/">>>>)

\* the collections of the render call in progress, as the call leaves them
VARIABLES
    namedTypeDefinitions,  \* the declarations pushed during the render call
    usedTypeNames,         \* the Set of claimed names, in insertion order
    objectNodeToTypeName   \* the Map object node -> name, in insertion order

\* mutant: the three collections belong to the module and not to the call, so
\* a call starts with what the call before it left
MutClosureStateShared(rootTypeName) ==
    RenderState(IF rootTypeName \in Range(usedTypeNames) THEN usedTypeNames
                ELSE Append(usedTypeNames, rootTypeName),
                objectNodeToTypeName, namedTypeDefinitions)

\* the collections every call creates for itself: namedTypeDefinitions = [],
\* objectNodeToTypeName = new Map(), usedTypeNames = new Set([rootTypeName])
NewClosureState(rootTypeName) == RenderState(<<rootTypeName>>, <<>>, <<>>)

\* [header, ...namedTypeDefinitions, rootDeclaration].join("\n\n") + "\n", and
\* the three collections of the closure when the call returns
AssembleOutput(rootDecl, st) ==
    [text |-> Join(<<header>> \o st.defs \o <<rootDecl>>, <<"\n", "\n">>) \o <<"\n">>,
     rootDecl |-> rootDecl,
     namedTypeDefinitions |-> st.defs,
     usedTypeNames |-> st.used,
     objectNodeToTypeName |-> st.memo]

\* the root declaration around the rendered root body
DeclareRoot(kw, rootTypeName, rootBody) ==
    AssembleOutput(Declaration(kw, rootTypeName, rootBody.text), rootBody.st)

renderTypescriptFromTree(rootTypeName, useInterfaceKeyword, rootTypeTree) ==
    DeclareRoot(TypeKeyword(useInterfaceKeyword), rootTypeName,
                renderTypeNode(rootTypeTree, <<>>, rootTypeName,
                               TypeKeyword(useInterfaceKeyword),
                               NewClosureState(rootTypeName)))

(***************************************************************************)
(* Inputs                                                                  *)
(***************************************************************************)
\* longest array drawn as an input
MaxArrayLen == 3

SeqsUpTo(S, n) == UNION {[1..k -> S] : k \in 1..n}

sA == <<"a">>

sB == <<"b">>

sSpaced == <<"a", " ", "b">>

sLong21 == [i \in 1..(MaxTokenLength + 1) |-> "x"]

sLong20 == [i \in 1..MaxTokenLength |-> "x"]

sDate == <<"2", "0", "2", "5", "-", "0", "8", "-", "1", "6">>

sDateTime == <<"2", "0", "2", "5", "-", "0", "8", "-", "1", "6", "T", "1", "2", ":", "3", "4", ":", "5", "6", "Z">>

sNotDate == <<"1", "6", "/", "0", "8", "/", "2", "0", "2", "5">>

\* the strings of string arrays
ArrayStrings == {sA, sB, <<>>, sSpaced, sLong21, sDate}

\* the strings inferred on their own
LoneStrings == ArrayStrings \cup {sLong20, sDateTime, sNotDate, <<"2", "0", "2", "5", "-", "0", "8", "-", "1", "6", " ", "1", "2", ":", "3", "4">>,
                                  <<"2", "0", "2", "5", "-", "0", "8", "-", "1", "6", "T", "1", "2", ":", "3", "4", ":", "5", "6", ".", "7", "8", "9", "+", "0", "1", ":", "0", "0">>,
                                  <<"2", "0", "2", "5", "-", "0", "8", "-", "1", "6", "T", "1", "2", ":", "3", "4", ":", "5", "6", ".", "7", "8", "9", "0", "Z">>, <<"2", "0", "2", "5", "-", "0", "8", "-", "1", "6", "T">>}

kA == <<"a">>

kB == <<"b">>

\* the objects that are elements of arrays
ElementObjects ==
    {JObject(<<>>),
     JObject(<<<<kA, JNumber>>>>),
     JObject(<<<<kA, JString(sA)>>>>),
     JObject(<<<<kB, JNull>>>>),
     JObject(<<<<kA, JNumber>>, <<kB, JNumber>>>>),
     JObject(<<<<kB, JString(sDate)>>, <<kA, JNumber>>>>)}

\* the elements of arrays of mixed kinds
MixedElements ==
    {JNull, JNumber, JString(sA), JString(sDate),
     JObject(<<<<kA, JNumber>>>>), JArray(<<JNumber>>), JArray(<<JNull>>), JArray(<<>>)}

ThresholdOptions == {<<2, 12>>, <<1, 1>>, <<2, 2>>, <<1, 12>>, <<3, 2>>}

AllInferOptions ==
    {InferOptions(d, mm[1], mm[2]) : d \in BOOLEAN, mm \in ThresholdOptions}

DefaultThresholdOptions == {InferOptions(d, 2, 12) : d \in BOOLEAN}

User == <<"U", "s", "e", "r">>

Item == <<"I", "t", "e", "m">>

RunInput(v, o, name, iface) ==
    [value |-> v, options |-> o, rootTypeName |-> name, useInterfaceKeyword |-> iface]

\* inputs of the runs that exercise inference
\* arrays of two arrays of strings: enum item types meet plain ones
NestedStringArrays ==
    {JArray(<<JArray([i \in DOMAIN e |-> JString(e[i])]),
              JArray([i \in DOMAIN f |-> JString(f[i])])>>) :
        e \in SeqsUpTo({sA, sB, sSpaced}, 2), f \in SeqsUpTo({sA, sB, sSpaced}, 2)}

InferenceInputs ==
    {RunInput(v, o, User, FALSE) : v \in NestedStringArrays, o \in DefaultThresholdOptions}
    \cup
    {RunInput(v, o, User, FALSE) :
        v \in {JNull, JNumber, JBoolean, JArray(<<>>)} \cup {JString(s) : s \in LoneStrings},
        o \in DefaultThresholdOptions}
    \cup
    {RunInput(JArray([i \in DOMAIN e |-> JString(e[i])]), o, User, FALSE) :
        e \in SeqsUpTo(ArrayStrings, MaxArrayLen), o \in AllInferOptions}
    \cup
    {RunInput(JArray(e), o, User, FALSE) :
        e \in SeqsUpTo(ElementObjects, MaxArrayLen), o \in {InferOptions(TRUE, 2, 12)}}
    \cup
    {RunInput(JArray(e), o, User, FALSE) :
        e \in SeqsUpTo(MixedElements, MaxArrayLen), o \in DefaultThresholdOptions}

(***************************************************************************)
(* Inputs of the runs that exercise rendering                              *)
(***************************************************************************)
kProfile == <<"p", "r", "o", "f", "i", "l", "e">>

kItem == <<"i", "t", "e", "m">>

kItems == <<"i", "t", "e", "m", "s">>

kItem2 == <<"i", "t", "e", "m", "2">>

kUser == <<"u", "s", "e", "r">>

kProjects == <<"p", "r", "o", "j", "e", "c", "t", "s">>

kCompanies == <<"c", "o", "m", "p", "a", "n", "i", "e", "s">>

kBoss == <<"b", "o", "s", "s">>

kBoxes == <<"b", "o", "x", "e", "s">>

kCases == <<"c", "a", "s", "e", "s">>

kS == <<"s">>

vEmptyObject == JObject(<<>>)

vProfile == JObject(<<<<kB, JNull>>, <<kA, JNumber>>>>)

vArrayOfObject == JArray(<<JObject(<<<<kA, JString(sA)>>>>)>>)

vArrayOfTwoObjects == JArray(<<JObject(<<<<kA, JNumber>>>>), JObject(<<<<kB, JNumber>>>>)>>)

vArrayOfArrayOfObject == JArray(<<JArray(<<JObject(<<<<kA, JNumber>>>>)>>)>>)

vNumberOrObject == JArray(<<JNumber, JObject(<<<<kA, JNumber>>>>)>>)

vNestedItem == JObject(<<<<kItem, JObject(<<<<kA, JNumber>>>>)>>>>)

vNestedItems == JObject(<<<<kItems, JArray(<<JObject(<<>>)>>)>>>>)

vEnum == JArray(<<JString(sA), JString(sB)>>)

\* keys that differ in case or in punctuation
CaseKeys == {kA, <<"B">>, <<"A">>, <<"a", "_", "b">>, <<"a", "B">>, <<"a", "-", "b">>, <<"Z", "1">>}

RenderKeys ==
    {kProfile, kItem, kItems, kItem2, kUser, kProjects, kCompanies, kBoss, kBoxes,
     kCases, kS, <<>>, <<"a", "-", "b">>, <<"a", " ", "b">>, <<"1", "a">>}

vNumberOrEnumArray == JArray(<<JNumber, JArray(<<JString(sA), JString(sB)>>)>>)

vArrayOfEnumArray == JArray(<<JArray(<<JString(sB), JString(sA)>>)>>)

vDates == JArray(<<JString(sDate)>>)

\* [[1, "a"], ["a", true]]: two arrays whose item unions share a member
vSharedMemberArrays ==
    JArray(<<JArray(<<JNumber, JString(sA)>>), JArray(<<JString(sA), JBoolean>>)>>)

\* [[1, "a"], ["a", 1]]: the same two kinds in the other order
vSwappedArrays ==
    JArray(<<JArray(<<JNumber, JString(sA)>>), JArray(<<JString(sA), JNumber>>)>>)

RenderFieldValues ==
    {JNumber, JString(sDate), vEmptyObject, vProfile, vArrayOfObject, vArrayOfTwoObjects,
     vArrayOfArrayOfObject, vNumberOrObject, vNestedItem, vNestedItems, vEnum,
     vNumberOrEnumArray, vArrayOfEnumArray, vDates, JArray(<<>>)}

PairKeys == {kItem, kItems, kItem2, kUser, kProfile}

PairFieldValues == {JNumber, vEmptyObject, vArrayOfObject, vNestedItem, vNumberOrObject}

TripleFieldValues == {vEmptyObject, vArrayOfObject}

RenderValues ==
    {JObject(<<<<k, v>>>>) : k \in RenderKeys, v \in RenderFieldValues}
    \cup
    {JObject(<<<<kv[1], kv[2]>>, <<kv[3], kv[4]>>>>) :
        kv \in {x \in PairKeys \X PairFieldValues \X PairKeys \X PairFieldValues :
                    x[1] # x[3]}}
    \cup
    {JObject(<<<<kItems, x[1]>>, <<kItem2, x[2]>>, <<kItem, x[3]>>>>) :
        x \in TripleFieldValues \X TripleFieldValues \X TripleFieldValues}
    \cup
    {vArrayOfArrayOfObject, vNumberOrObject, vArrayOfTwoObjects, vNumberOrEnumArray,
     vArrayOfEnumArray, vEnum, vSharedMemberArrays, vSwappedArrays}
    \cup
    {JObject(<<<<kk[1], JNumber>>, <<kk[2], JString(sA)>>>>) :
        kk \in {x \in CaseKeys \X CaseKeys : x[1] # x[2]}}

RenderInputs ==
    {RunInput(v, InferOptions(TRUE, 2, 12), name, iface) :
        v \in RenderValues, name \in {User, Item}, iface \in BOOLEAN}

(***************************************************************************)
(* The run of main: parse -> infer -> render                                *)
(***************************************************************************)
VARIABLES
    pc,                    \* "start", "inferred", "rendered"
    value,                 \* parsedJsonValue
    options,               \* the options record of main
    rootTypeName,          \* userProvidedModelName
    useInterfaceKeyword,   \* !!args.interface
    inferredTypeTree,      \* result of inferTypeFromValue
    tsText,                \* result of renderTypescriptFromTree
    upc,                   \* unification on its own: "ready", "unified"
    ua,                    \* first operand (the accumulator of the fold)
    ub,                    \* second operand
    ur,                    \* unifyTypes(ua, ub)
    folds,                 \* number of results fed back as accumulator
    calls,                 \* render calls made one after the other: inputs and text
    tpc,                   \* start of main: "start", "parsed", "prompting", "decided", "done"
    argvList,              \* process.argv.slice(2)
    parsedArgs,            \* result of parseCommandLineArguments
    envTelemetry,          \* process.env.TYPASAUR_TELEMETRY
    posthogKey,            \* process.env.POSTHOG_KEY is set
    stdinIsTTY,            \* process.stdin.isTTY
    telemetryConfig,       \* content of ~/.typasaur.json
    telemetryAllowed,      \* result of getOrEstablishTelemetryPreference
    promptShown,           \* the consent question has been written
    configSaved,           \* saveTelemetryConfig has been called
    captureRunEventCalled, \* captureRunEvent has been called
    eventSent,             \* an event has been handed to the SDK or to https
    linesRead,             \* lines the reader has delivered to the line handler
    buffer,                \* promptJsonUntilValid: buffer
    depth,                 \* promptJsonUntilValid: depth, {} [] balance
    inString,              \* promptJsonUntilValid: inString
    escaped,               \* promptJsonUntilValid: escaped
    inFence,               \* promptJsonUntilValid: inFence
    rlClosed,              \* the reader has been closed
    stdinEnded,            \* the input has ended (Ctrl+D)
    resolvedTexts,         \* values the promise's resolve has been called with
    mpc,                   \* main: "start", "named", "read", "parsed", "ended"
    mainArgs,              \* main: args
    isTty,                 \* main: isTty
    cwdExists,             \* process.cwd() returns (the directory has not been removed)
    rawJsonInput,          \* main: rawJsonInput
    exitCode,              \* exit code of the process once it has ended
    outputFile,            \* texts written to the output file
    envEvents,             \* what the environment has done: failures, end of input
    heap,                  \* the node objects that exist, by address
    ha,                    \* address of the first operand of unifyTypes
    hb,                    \* address of the second operand
    hr,                    \* address unifyTypes returned, 0 before the call
    hpc                    \* "ready", "unified", "rendered"

runVars == <<pc, value, options, rootTypeName, useInterfaceKeyword, inferredTypeTree,
             tsText, namedTypeDefinitions, usedTypeNames, objectNodeToTypeName>>

unifyVars == <<upc, ua, ub, ur, folds>>

callVars == <<calls>>

telemetryVars == <<tpc, argvList, parsedArgs, envTelemetry, posthogKey, stdinIsTTY,
                   telemetryConfig, telemetryAllowed, promptShown, configSaved,
                   captureRunEventCalled, eventSent>>

inputVars == <<linesRead, buffer, depth, inString, escaped, inFence, rlClosed,
               stdinEnded, resolvedTexts>>

mainVars == <<mpc, mainArgs, isTty, cwdExists, rawJsonInput, exitCode, outputFile,
              envEvents>>

heapVars == <<heap, ha, hb, hr, hpc>>

vars == <<runVars, unifyVars, callVars, telemetryVars, inputVars, mainVars, heapVars>>

\* no node object is under study
HeapIdle ==
    /\ heap = <<>>
    /\ ha = 0
    /\ hb = 0
    /\ hr = 0
    /\ hpc = "idle"

\* an absent argument, an undefined value
Undefined == <<"undefined">>

\* args of main: the values its steps 1 to 3 and 7 read
MainArgs(modelName, inputJson, out, interface) ==
    [modelName |-> modelName, inputJson |-> inputJson, out |-> out,
     interface |-> interface]

\* main has not been entered
MainIdle ==
    /\ mpc = "idle"
    /\ mainArgs = MainArgs(Undefined, Undefined, Undefined, FALSE)
    /\ isTty = FALSE
    /\ cwdExists = TRUE
    /\ rawJsonInput = <<>>
    /\ exitCode = -1
    /\ outputFile = <<>>
    /\ envEvents = {}

\* no interactive input is being read
InputIdle ==
    /\ linesRead = <<>>
    /\ buffer = <<>>
    /\ depth = 0
    /\ inString = FALSE
    /\ escaped = FALSE
    /\ inFence = FALSE
    /\ rlClosed = TRUE
    /\ stdinEnded = FALSE
    /\ resolvedTexts = <<>>

\* the start of main is not under study
TelemetryIdle ==
    /\ tpc = "idle"
    /\ argvList = <<>>
    /\ parsedArgs = <<>>
    /\ envTelemetry = "undefined"
    /\ posthogKey = FALSE
    /\ stdinIsTTY = FALSE
    /\ telemetryConfig = [telemetry |-> "undefined", anonymousId |-> FALSE]
    /\ telemetryAllowed = FALSE
    /\ promptShown = FALSE
    /\ configSaved = FALSE
    /\ captureRunEventCalled = FALSE
    /\ eventSent = FALSE

\* no value yet
NoTree == [kind |-> "none"]

RunInputs == InferenceInputs \cup RenderInputs

UnifyIdle ==
    /\ upc = "idle"
    /\ ua = NoTree
    /\ ub = NoTree
    /\ ur = NoTree
    /\ folds = 0

Init ==
    /\ UnifyIdle
    /\ calls = <<>>
    /\ TelemetryIdle
    /\ InputIdle
    /\ MainIdle
    /\ HeapIdle
    /\ pc = "start"
    /\ \E in \in RunInputs :
          /\ value = in.value
          /\ options = in.options
          /\ rootTypeName = in.rootTypeName
          /\ useInterfaceKeyword = in.useInterfaceKeyword
    /\ inferredTypeTree = NoTree
    /\ tsText = <<>>
    /\ namedTypeDefinitions = <<>>
    /\ usedTypeNames = <<>>
    /\ objectNodeToTypeName = <<>>

\* step 6 of main
Infer ==
    /\ pc = "start"
    /\ inferredTypeTree' = inferTypeFromValue(value, options)
    /\ pc' = "inferred"
    /\ UNCHANGED <<value, options, rootTypeName, useInterfaceKeyword, tsText,
                   namedTypeDefinitions, usedTypeNames, objectNodeToTypeName>>
    /\ UNCHANGED unifyVars
    /\ UNCHANGED callVars
    /\ UNCHANGED telemetryVars
    /\ UNCHANGED inputVars
    /\ UNCHANGED mainVars
    /\ UNCHANGED heapVars

\* what the render call leaves behind: its text and its closure's collections
ReturnRendered(r) ==
    /\ tsText' = r.text
    /\ namedTypeDefinitions' = r.namedTypeDefinitions
    /\ usedTypeNames' = r.usedTypeNames
    /\ objectNodeToTypeName' = r.objectNodeToTypeName

\* step 7 of main
Render ==
    /\ pc = "inferred"
    /\ ReturnRendered(renderTypescriptFromTree(rootTypeName, useInterfaceKeyword,
                                              inferredTypeTree))
    /\ pc' = "rendered"
    /\ UNCHANGED <<value, options, rootTypeName, useInterfaceKeyword, inferredTypeTree>>
    /\ UNCHANGED unifyVars
    /\ UNCHANGED callVars
    /\ UNCHANGED telemetryVars
    /\ UNCHANGED inputVars
    /\ UNCHANGED mainVars
    /\ UNCHANGED heapVars

Next == Infer \/ Render

Spec == Init /\ [][Next]_vars

(***************************************************************************)
(* unifyTypes on its own: the operands are nodes built by inference, and   *)
(* a result can be fed back as the accumulator, as the reduce of           *)
(* unifyTypesMany does.                                                    *)
(***************************************************************************)
\* results fed back as the accumulator in one behaviour
MaxFolds == 1

UnifySampleValues ==
    {JNull, JNumber, JBoolean, JString(sA), JString(sB), JString(sDate),
     JObject(<<<<kB, JNumber>>, <<kA, JNumber>>>>),
     JArray(<<>>), JArray(<<JNumber>>), JArray(<<JString(sA)>>),
     JArray(<<JString(sA), JString(sB)>>), JArray(<<JString(sB), JString(sA)>>),
     JArray(<<JNumber, JString(sA)>>), JArray(<<JString(sA), JBoolean>>),
     JArray(<<JObject(<<<<kA, JNumber>>>>)>>),
     JArray(<<JArray(<<JNumber>>), JBoolean>>)}
    \cup ElementObjects
    \cup {JObject(<<<<kA, JObject(<<<<kB, JNumber>>>>)>>>>),
          JObject(<<<<kA, JObject(<<>>)>>, <<kB, JString(sA)>>>>)}

\* the nodes inference builds for the samples, and the item types of the arrays
UnifySampleNodes ==
    LET top == {inferTypeFromValue(v, InferOptions(TRUE, 2, 12)) : v \in UnifySampleValues}
    IN  top \cup {n.items : n \in {m \in top : m.kind = "array"}}

RunIdle ==
    /\ pc = "idle"
    /\ value = JNull
    /\ options = InferOptions(TRUE, 2, 12)
    /\ rootTypeName = <<>>
    /\ useInterfaceKeyword = FALSE
    /\ inferredTypeTree = NoTree
    /\ tsText = <<>>
    /\ namedTypeDefinitions = <<>>
    /\ usedTypeNames = <<>>
    /\ objectNodeToTypeName = <<>>

InitUnify ==
    /\ RunIdle
    /\ calls = <<>>
    /\ TelemetryIdle
    /\ InputIdle
    /\ MainIdle
    /\ HeapIdle
    /\ upc = "ready"
    /\ ua \in UnifySampleNodes
    /\ ub \in UnifySampleNodes
    /\ ur = NoTree
    /\ folds = 0

\* one call unifyTypes(a, b)
Unify ==
    /\ upc = "ready"
    /\ ur' = unifyTypes(ua, ub)
    /\ upc' = "unified"
    /\ UNCHANGED <<ua, ub, folds>>
    /\ UNCHANGED runVars
    /\ UNCHANGED callVars
    /\ UNCHANGED telemetryVars
    /\ UNCHANGED inputVars
    /\ UNCHANGED mainVars
    /\ UNCHANGED heapVars

\* the next iteration of the reduce: the result is the accumulator
FoldNext ==
    /\ upc = "unified"
    /\ folds < MaxFolds
    /\ ua' = ur
    /\ ub' \in UnifySampleNodes
    /\ ur' = NoTree
    /\ upc' = "ready"
    /\ folds' = folds + 1
    /\ UNCHANGED runVars
    /\ UNCHANGED callVars
    /\ UNCHANGED telemetryVars
    /\ UNCHANGED inputVars
    /\ UNCHANGED mainVars
    /\ UNCHANGED heapVars

NextUnify == Unify \/ FoldNext

SpecUnify == InitUnify /\ [][NextUnify]_vars

Unified == upc = "unified"

\* C2: for two Object nodes a and b, a field of unifyTypes(a, b) is required
\* iff it is present and required in both; a field of only one operand keeps
\* its type and is not required; the keys are those of a and b.
C2_RequiredIffRequiredInBoth ==
    (Unified /\ ua.kind = "object" /\ ub.kind = "object") =>
        /\ ur.kind = "object"
        /\ {ur.fields[i].key : i \in DOMAIN ur.fields}
              = {ua.fields[i].key : i \in DOMAIN ua.fields}
                \cup {ub.fields[i].key : i \in DOMAIN ub.fields}
        /\ \A i \in DOMAIN ur.fields :
              LET f == ur.fields[i]
                  inA == \E j \in DOMAIN ua.fields : ua.fields[j].key = f.key
                  inB == \E j \in DOMAIN ub.fields : ub.fields[j].key = f.key
                  fa == ua.fields[CHOOSE j \in DOMAIN ua.fields : ua.fields[j].key = f.key]
                  fb == ub.fields[CHOOSE j \in DOMAIN ub.fields : ub.fields[j].key = f.key]
              IN  /\ f.required <=> (inA /\ inB /\ fa.required /\ fb.required)
                  /\ (inA /\ ~inB) => (f.type = fa.type /\ ~f.required)
                  /\ (inB /\ ~inA) => (f.type = fb.type /\ ~f.required)

\* C2 witness: an object with an optional field (from an earlier unification)
\* has been unified with an object that has this field required and a field
\* of its own.
C2_Witness ==
    /\ Unified
    /\ ua.kind = "object"
    /\ ub.kind = "object"
    /\ \E i \in DOMAIN ua.fields, j \in DOMAIN ub.fields :
          /\ ua.fields[i].key = ub.fields[j].key
          /\ ~ua.fields[i].required
          /\ ub.fields[j].required
    /\ \E j \in DOMAIN ub.fields :
          \A i \in DOMAIN ua.fields : ua.fields[i].key # ub.fields[j].key

\* C3: unifyTypes(Any, x) and unifyTypes(x, Any) are of kind Any for every x.
C3_AnyDominates ==
    (Unified /\ (ua.kind = "any" \/ ub.kind = "any")) => ur.kind = "any"

\* C3 witness: a union has been unified with Any.
C3_Witness ==
    /\ Unified
    /\ ua.kind = "union"
    /\ ub.kind = "any"
    /\ ur = AnyNode

(***************************************************************************)
(* Properties of inference                                                 *)
(***************************************************************************)
Inferred == pc \in {"inferred", "rendered"}

IsNonEmptyArrayOf(v, kind) ==
    /\ v.t = "array"
    /\ Len(v.elems) > 0
    /\ \A i \in DOMAIN v.elems : v.elems[i].t = kind

KeysOfObject(obj) == {obj.entries[i][1] : i \in DOMAIN obj.entries}

\* C1: for a non-empty array of JSON objects the inferred type is an Array
\* of one Object node whose keys are the union of the keys of the elements,
\* each key once, and a field is required iff every element has the key.
C1_ArrayOfObjectsUnifiesToOneObject ==
    (Inferred /\ IsNonEmptyArrayOf(value, "object")) =>
        /\ inferredTypeTree.kind = "array"
        /\ inferredTypeTree.items.kind = "object"
        /\ LET fields == inferredTypeTree.items.fields
           IN  /\ {fields[i].key : i \in DOMAIN fields}
                    = UNION {KeysOfObject(value.elems[j]) : j \in DOMAIN value.elems}
               /\ \A i, j \in DOMAIN fields : fields[i].key = fields[j].key => i = j
               /\ \A i \in DOMAIN fields :
                     fields[i].required <=>
                        (\A j \in DOMAIN value.elems :
                            fields[i].key \in KeysOfObject(value.elems[j]))

\* C1 witness: an array of at least two objects with different key sets has
\* been inferred, giving one required and one optional field.
C1_Witness ==
    /\ pc = "inferred"
    /\ IsNonEmptyArrayOf(value, "object")
    /\ Len(value.elems) >= 2
    /\ \E i, j \in DOMAIN inferredTypeTree.items.fields :
          /\ inferredTypeTree.items.fields[i].required
          /\ ~inferredTypeTree.items.fields[j].required

\* C4: null infers Any, and a non-empty array with a null element infers
\* Array of Any whatever the other elements and their order.
C4_NullIsAnyAndDominatesArrays ==
    Inferred =>
        /\ value.t = "null" => inferredTypeTree = AnyNode
        /\ (value.t = "array" /\ \E i \in DOMAIN value.elems : value.elems[i].t = "null")
              => inferredTypeTree = ArrayNode(AnyNode)

\* C4 witness: an inferred array of three elements whose only null is in the
\* middle, between an object and a string.
C4_Witness ==
    /\ pc = "inferred"
    /\ value.t = "array"
    /\ Len(value.elems) = 3
    /\ value.elems[1].t = "object"
    /\ value.elems[2].t = "null"
    /\ value.elems[3].t = "string"
    /\ inferredTypeTree = ArrayNode(AnyNode)

StringsOf(v) == {v.elems[i].s : i \in DOMAIN v.elems}

\* position of the first occurrence of s among the elements of v
FirstSeen(v, s) ==
    CHOOSE i \in DOMAIN v.elems :
        /\ v.elems[i].s = s
        /\ \A j \in 1..(i - 1) : v.elems[j].s # s

\* a short token: 1 to 20 characters of [A-Za-z0-9_-]
IsShortToken(s) ==
    /\ Len(s) \in 1..20
    /\ \A i \in DOMAIN s :
          \/ s[i] \in Range(LowerLetters) \cup Range(UpperLetters) \cup Range(Digits)
          \/ s[i] = "_"
          \/ s[i] = "-"

EnumExpected(v, o) ==
    /\ Cardinality(StringsOf(v)) >= o.stringEnumMinUniqueValues
    /\ Cardinality(StringsOf(v)) <= o.stringEnumMaxUniqueValues
    /\ \A s \in StringsOf(v) : IsShortToken(s)

\* C5: for a non-empty array of strings the item type is a String node; it
\* carries enumValues (the distinct values in first-seen order) iff the
\* number of distinct values is within [min, max] and every one is a short
\* token, and carries none otherwise.
C5_StringEnumThreshold ==
    (Inferred /\ IsNonEmptyArrayOf(value, "string")) =>
        /\ inferredTypeTree.kind = "array"
        /\ inferredTypeTree.items.kind = "string"
        /\ LET items == inferredTypeTree.items
           IN  IF EnumExpected(value, options)
               THEN /\ items.hasEnum
                    /\ Range(items.enumValues) = StringsOf(value)
                    /\ Len(items.enumValues) = Cardinality(StringsOf(value))
                    /\ \A i, j \in DOMAIN items.enumValues :
                          i < j => FirstSeen(value, items.enumValues[i])
                                     < FirstSeen(value, items.enumValues[j])
               ELSE ~items.hasEnum
        /\ (value = JArray(<<JString(sA), JString(sB)>>)
              /\ options.stringEnumMinUniqueValues = 2
              /\ options.stringEnumMaxUniqueValues = 12)
             => (inferredTypeTree.items.hasEnum
                   /\ inferredTypeTree.items.enumValues = <<sA, sB>>)
        /\ (value = JArray(<<JString(sA)>>) /\ options.stringEnumMinUniqueValues = 2)
             => ~inferredTypeTree.items.hasEnum

\* C5 witness: ["b", "a", "b"] inferred with min = 2 and max = 2, exactly at
\* both thresholds, gives the enum b, a.
C5_Witness ==
    /\ pc = "inferred"
    /\ value = JArray(<<JString(sB), JString(sA), JString(sB)>>)
    /\ options.stringEnumMinUniqueValues = 2
    /\ options.stringEnumMaxUniqueValues = 2
    /\ inferredTypeTree.items.hasEnum
    /\ inferredTypeTree.items.enumValues = <<sB, sA>>

RECURSIVE HasDateNode(_)
\* some String node of the tree has isDate = true
HasDateNode(node) ==
    CASE node.kind = "string" -> node.isDate
      [] node.kind = "array" -> HasDateNode(node.items)
      [] node.kind = "union" -> \E i \in DOMAIN node.types : HasDateNode(node.types[i])
      [] node.kind = "object" -> \E i \in DOMAIN node.fields : HasDateNode(node.fields[i].type)
      [] OTHER -> FALSE

\* text contains part as a substring
Contains(text, part) ==
    \E i \in 0..(Len(text) - Len(part)) : SubSeq(text, i + 1, i + Len(part)) = part

RECURSIVE HasDateString(_)
\* some string of the JSON value matches the date pattern
HasDateString(v) ==
    CASE v.t = "string" -> isIsoLikeDateString(v.s)
      [] v.t = "array" -> \E i \in DOMAIN v.elems : HasDateString(v.elems[i])
      [] v.t = "object" -> \E i \in DOMAIN v.entries : HasDateString(v.entries[i][2])
      [] OTHER -> FALSE

\* C6: with detectDatesFromIsoStrings = false no String node of the inferred
\* tree has isDate = true (and no `string | Date` is rendered); with the
\* option true a string value matching the date pattern infers a String node
\* with isDate = true.
C6_DateDetectionFollowsOption ==
    /\ (Inferred /\ ~options.detectDatesFromIsoStrings) => ~HasDateNode(inferredTypeTree)
    /\ (pc = "rendered" /\ ~options.detectDatesFromIsoStrings)
          => ~Contains(tsText, <<"s", "t", "r", "i", "n", "g", " ", "|", " ", "D", "a", "t", "e">>)
    /\ (Inferred /\ options.detectDatesFromIsoStrings /\ value.t = "string"
          /\ isIsoLikeDateString(value.s))
          => (inferredTypeTree.kind = "string" /\ inferredTypeTree.isDate)
    /\ (Inferred /\ value = JString(sDateTime))
          => (inferredTypeTree.isDate = options.detectDatesFromIsoStrings)

\* C6 witness: a value holding a date string next to other values has been
\* inferred and rendered with the option off.
C6_Witness ==
    /\ pc = "rendered"
    /\ ~options.detectDatesFromIsoStrings
    /\ value.t = "array"
    /\ Len(value.elems) >= 2
    /\ HasDateString(value)
    /\ inferredTypeTree.items.kind = "union"

(***************************************************************************)
(* Properties of rendering                                                 *)
(***************************************************************************)
Rendered == pc = "rendered"

RECURSIVE Sites(_, _)
\* every node of a tree with its path
Sites(node, path) ==
    {[path |-> path, node |-> node]} \cup
    (CASE node.kind = "array" -> Sites(node.items, path \o <<ItemsStep>>)
       [] node.kind = "union" ->
            UNION {Sites(node.types[i], path \o <<MemberStep(i)>>) : i \in DOMAIN node.types}
       [] node.kind = "object" ->
            UNION {Sites(node.fields[i].type, path \o <<FieldStep(node.fields[i].key)>>) :
                      i \in DOMAIN node.fields}
       [] OTHER -> {})

ObjectSites == {s \in Sites(inferredTypeTree, <<>>) : s.node.kind = "object"}

\* every field of every object node: the path of the object and the field entry
FieldSites ==
    UNION {{[path |-> s.path, field |-> s.node.fields[i]] : i \in DOMAIN s.node.fields} :
              s \in ObjectSites}

IsFieldValuePath(p) == Len(p) >= 1 /\ Head(p[Len(p)]) = "f"

IsFieldArrayItemPath(p) ==
    Len(p) >= 2 /\ p[Len(p)] = ItemsStep /\ Head(p[Len(p) - 1]) = "f"

StartsWith(text, part) ==
    Len(text) >= Len(part) /\ SubSeq(text, 1, Len(part)) = part

EndsWith(text, part) ==
    Len(text) >= Len(part) /\ SubSeq(text, Len(text) - Len(part) + 1, Len(text)) = part

\* the first letter upper-cased, the rest unchanged
CapFirst(k) == IF k = <<>> THEN <<>> ELSE <<ToUpperChar(k[1])>> \o Tail(k)

LowerCased(k) == [i \in DOMAIN k |-> ToLowerChar(k[i])]

PositionIn(seq, x) == CHOOSE i \in DOMAIN seq : seq[i] = x

\* the names claimed before name was
ClaimedBefore(name) ==
    {usedTypeNames[i] : i \in 1..(PositionIn(usedTypeNames, name) - 1)}

NameOfObjectAt(path) == MemoGet(objectNodeToTypeName, path)

DeclHeader(name) ==
    <<"e", "x", "p", "o", "r", "t", " ">> \o TypeKeyword(useInterfaceKeyword) \o <<" ">> \o name \o <<" ", "=", " ", "{">>

KeyText(k) == IF isValidTypescriptIdentifier(k) THEN k ELSE JsonStringifyString(k)

\* the start of the body line of a field: newline, two spaces, key, ?, colon
FieldLineStart(field) ==
    <<"\n">> \o <<" ", " ">> \o KeyText(field.key)
    \o (IF field.required THEN <<>> ELSE <<"?">>) \o <<":", " ">>

\* the whole body line of a field whose type text is typeText
FieldLine(field, typeText) == FieldLineStart(field) \o typeText \o <<";", "\n">>

\* the output holds a declaration of this name whose body lists the fields of node
HasDeclaration(name, node) ==
    \E i \in DOMAIN namedTypeDefinitions :
        LET d == namedTypeDefinitions[i]
        IN  /\ StartsWith(d, DeclHeader(name))
            /\ EndsWith(d, <<"\n", "}", ";">>)
            /\ \A j \in DOMAIN node.fields : Contains(d, FieldLineStart(node.fields[j]))
            /\ Contains(tsText, <<"\n", "\n">> \o d \o <<"\n">>)

\* name is base, or base with a decimal suffix of at least 2 when base was claimed
NamedAfter(name, base) ==
    IF base \notin ClaimedBefore(name) THEN name = base
    ELSE \E n \in 2..(Len(usedTypeNames) + 1) : name = base \o DecimalDigits(n)

ModelName == <<"M", "o", "d", "e", "l">>

ItemName == <<"I", "t", "e", "m">>

\* C7 as stated: every field whose type is an Object node has a declaration
\* named by the field key with its first letter upper-cased (when unclaimed)
\* that lists the object's fields, and the field's type text is that name.
C7_Original_ObjectFieldNamedByCapitalizedKey ==
    Rendered =>
        \A fs \in FieldSites :
            fs.field.type.kind = "object" =>
                LET path == fs.path \o <<FieldStep(fs.field.key)>>
                IN  /\ MemoHas(objectNodeToTypeName, path)
                    /\ NamedAfter(NameOfObjectAt(path), CapFirst(fs.field.key))
                    /\ HasDeclaration(NameOfObjectAt(path), fs.field.type)
                    /\ Contains(tsText, FieldLine(fs.field, NameOfObjectAt(path)))

\* C7 amended: as stated for a non-empty key; the object under the empty key
\* is named Model (with a suffix when Model is claimed).
C7_ObjectFieldNamedByCapitalizedKeyOrModel ==
    Rendered =>
        \A fs \in FieldSites :
            fs.field.type.kind = "object" =>
                LET path == fs.path \o <<FieldStep(fs.field.key)>>
                    base == IF fs.field.key = <<>> THEN ModelName
                            ELSE CapFirst(fs.field.key)
                IN  /\ MemoHas(objectNodeToTypeName, path)
                    /\ NamedAfter(NameOfObjectAt(path), base)
                    /\ HasDeclaration(NameOfObjectAt(path), fs.field.type)
                    /\ Contains(tsText, FieldLine(fs.field, NameOfObjectAt(path)))

\* C7 witness: {"profile": {"b": null, "a": 1}} rendered under root User
\* declares Profile and types the field profile as Profile.
C7_Witness ==
    /\ Rendered
    /\ value = JObject(<<<<kProfile, vProfile>>>>)
    /\ rootTypeName = User
    /\ ~useInterfaceKeyword
    /\ Contains(tsText, <<" ", " ", "p", "r", "o", "f", "i", "l", "e", ":", " ", "P", "r", "o", "f", "i", "l", "e", ";">>)
    /\ Contains(tsText, <<"e", "x", "p", "o", "r", "t", " ", "t", "y", "p", "e", " ", "P", "r", "o", "f", "i", "l", "e", " ", "=", " ", "{">>)
    /\ Contains(tsText, <<" ", " ", "b", ":", " ", "a", "n", "y", ";">>)

\* the singular of the claim: ies -> y, a final s removed unless ss
ClaimedSingular(k) ==
    IF EndsWith(k, <<"i", "e", "s">>) THEN SubSeq(k, 1, Len(k) - 3) \o <<"y">>
    ELSE IF EndsWith(k, <<"s">>) /\ ~EndsWith(k, <<"s", "s">>) THEN SubSeq(k, 1, Len(k) - 1)
    ELSE k

\* the singular the renderer uses, by the first rule that applies (letter
\* case ignored in the suffix): ies -> y; ses -> the final es becomes s;
\* xes, zes, ches, shes lose es; a final s is removed unless ss
RenderedSingular(k) ==
    LET low == LowerCased(k)
        cut(n) == SubSeq(k, 1, Len(k) - n)
    IN  IF EndsWith(low, <<"i", "e", "s">>) THEN cut(3) \o <<"y">>
        ELSE IF EndsWith(low, <<"s", "e", "s">>) THEN cut(2) \o <<"s">>
        ELSE IF \E suffix \in {<<"x", "e", "s">>, <<"z", "e", "s">>, <<"c", "h", "e", "s">>, <<"s", "h", "e", "s">>} : EndsWith(low, suffix)
             THEN cut(2)
        ELSE IF EndsWith(low, <<"s">>) /\ ~EndsWith(low, <<"s", "s">>) THEN cut(1)
        ELSE k

\* the base name of the item of the array under key k
RenderedItemBase(k) ==
    IF k = <<>> THEN ItemName
    ELSE IF RenderedSingular(k) = <<>> THEN ModelName
    ELSE CapFirst(RenderedSingular(k))

IsArrayOfObjectField(field) ==
    field.type.kind = "array" /\ field.type.items.kind = "object"

\* C8 as stated: a field that is an array of objects is rendered as Name[]
\* with a declaration Name, Name being the capitalized singular of the key
\* (ies -> y, final s removed unless ss).
C8_Original_ArrayItemNamedBySimpleSingular ==
    Rendered =>
        \A fs \in FieldSites :
            IsArrayOfObjectField(fs.field) =>
                LET path == fs.path \o <<FieldStep(fs.field.key), ItemsStep>>
                    name == CapFirst(ClaimedSingular(fs.field.key))
                IN  /\ MemoHas(objectNodeToTypeName, path)
                    /\ NameOfObjectAt(path) = name
                    /\ HasDeclaration(name, fs.field.type.items)
                    /\ Contains(tsText, FieldLine(fs.field, name \o <<"[", "]">>))

\* C8 amended: the field is rendered as Name[] with a declaration Name, where
\* Name is the capitalized singular of the key by the renderer's rules (Item
\* for an empty key, Model for an empty singular), with a numeric suffix when
\* that name is already claimed.
C8_ArrayItemNamedByRenderedSingular ==
    Rendered =>
        \A fs \in FieldSites :
            IsArrayOfObjectField(fs.field) =>
                LET path == fs.path \o <<FieldStep(fs.field.key), ItemsStep>>
                IN  /\ MemoHas(objectNodeToTypeName, path)
                    /\ NamedAfter(NameOfObjectAt(path), RenderedItemBase(fs.field.key))
                    /\ HasDeclaration(NameOfObjectAt(path), fs.field.type.items)
                    /\ Contains(tsText,
                                FieldLine(fs.field, NameOfObjectAt(path) \o <<"[", "]">>))

\* C8 witness: {"companies": [{"a": "a"}]} rendered under root User declares
\* Company and types the field as Company[].
C8_Witness ==
    /\ Rendered
    /\ value = JObject(<<<<kCompanies, vArrayOfObject>>>>)
    /\ rootTypeName = User
    /\ ~useInterfaceKeyword
    /\ Contains(tsText, <<" ", " ", "c", "o", "m", "p", "a", "n", "i", "e", "s", ":", " ", "C", "o", "m", "p", "a", "n", "y", "[", "]", ";">>)
    /\ Contains(tsText, <<"e", "x", "p", "o", "r", "t", " ", "t", "y", "p", "e", " ", "C", "o", "m", "p", "a", "n", "y", " ", "=", " ", "{">>)

\* the key and the array flag a hoisted object was named from
BaseNameOfPath(p) ==
    IF IsFieldValuePath(p) THEN nameFromJsonKey(Tail(p[Len(p)]), FALSE)
    ELSE nameFromJsonKey(Tail(p[Len(p) - 1]), TRUE)

IsProperPrefix(p, q) == Len(p) < Len(q) /\ SubSeq(q, 1, Len(p)) = p

\* C9: in one render call the declared names and the root name are pairwise
\* distinct; names are claimed in discovery order, the root name first; an
\* object whose base name is claimed gets the base name followed by the
\* smallest n >= 2 that gives an unclaimed name; the root name is not reused.
C9_NamesDistinctWithSmallestSuffix ==
    Rendered =>
        /\ usedTypeNames[1] = rootTypeName
        /\ \A i, j \in DOMAIN usedTypeNames : usedTypeNames[i] = usedTypeNames[j] => i = j
        /\ Len(usedTypeNames) = Len(objectNodeToTypeName) + 1
        /\ Len(namedTypeDefinitions) = Len(objectNodeToTypeName)
        /\ \A i \in DOMAIN objectNodeToTypeName :
              LET name == objectNodeToTypeName[i].name
                  base == BaseNameOfPath(objectNodeToTypeName[i].path)
                  before == {usedTypeNames[j] : j \in 1..i}
              IN  /\ usedTypeNames[i + 1] = name
                  /\ name # rootTypeName
                  /\ \E d \in DOMAIN namedTypeDefinitions :
                        StartsWith(namedTypeDefinitions[d], DeclHeader(name))
                  /\ IF base \notin before THEN name = base
                     ELSE \E n \in 2..(i + 1) :
                            /\ name = base \o DecimalDigits(n)
                            /\ \A m \in 2..(n - 1) : (base \o DecimalDigits(m)) \in before
        /\ \A i, j \in DOMAIN objectNodeToTypeName :
              IsProperPrefix(objectNodeToTypeName[i].path, objectNodeToTypeName[j].path)
                 => i < j

\* C9 witness: root Item with object fields item, item2 and an array of
\* objects items: the names are Item2, Item22 and Item3.
C9_Witness ==
    /\ Rendered
    /\ rootTypeName = Item
    /\ usedTypeNames = <<Item, <<"I", "t", "e", "m", "2">>, <<"I", "t", "e", "m", "2", "2">>, <<"I", "t", "e", "m", "3">>>>

\* C10: every Object node other than the root has a separate named
\* declaration and is referenced by name, wherever it sits: as a field
\* value, as the item of an array at any depth, as a member of a union.
C10_EveryNonRootObjectIsHoisted ==
    Rendered =>
        \A s \in ObjectSites :
            s.path # <<>> =>
                /\ MemoHas(objectNodeToTypeName, s.path)
                /\ HasDeclaration(NameOfObjectAt(s.path), s.node)


\* the position in namedTypeDefinitions of the declaration of name
DeclarationIndex(name) ==
    CHOOSE d \in DOMAIN namedTypeDefinitions :
        StartsWith(namedTypeDefinitions[d], DeclHeader(name))

\* the output is the header, the hoisted declarations in the order of
\* namedTypeDefinitions and then the declaration of the root, which is the
\* last declaration of the text
RootDeclarationIsLast ==
    LET front == Join(<<header>> \o namedTypeDefinitions, <<"\n", "\n">>) \o <<"\n", "\n">>
                 \o <<"e", "x", "p", "o", "r", "t", " ">> \o TypeKeyword(useInterfaceKeyword) \o <<" ">>
                 \o rootTypeName \o <<" ", "=", " ">>
    IN  /\ StartsWith(tsText, front)
        /\ ~Contains(SubSeq(tsText, Len(front) + 1, Len(tsText)), <<"\n", "e", "x", "p", "o", "r", "t", " ">>)
        /\ EndsWith(tsText, <<";", "\n">>)

\* C11 as stated: the hoisted declarations appear in the order in which their
\* object nodes are first discovered (the order of objectNodeToTypeName), so
\* the declaration of an object precedes those of the objects nested in it;
\* the root declaration is the last declaration.
C11_Original_DeclarationsInDiscoveryOrder ==
    Rendered =>
        /\ Len(namedTypeDefinitions) = Len(objectNodeToTypeName)
        /\ \A i \in DOMAIN objectNodeToTypeName :
              StartsWith(namedTypeDefinitions[i], DeclHeader(objectNodeToTypeName[i].name))
        /\ RootDeclarationIsLast

\* C11 amended: the hoisted declarations appear in the order in which the
\* rendering of their objects completes: the declaration of an object follows
\* the declarations of all objects hoisted from inside it, objects of which
\* neither is inside the other keep their discovery order, and the root
\* declaration is the last declaration.
C11_DeclarationsInCompletionOrder ==
    Rendered =>
        /\ Len(namedTypeDefinitions) = Len(objectNodeToTypeName)
        /\ \A i, j \in DOMAIN objectNodeToTypeName :
              LET pi == objectNodeToTypeName[i].path
                  pj == objectNodeToTypeName[j].path
                  di == DeclarationIndex(objectNodeToTypeName[i].name)
                  dj == DeclarationIndex(objectNodeToTypeName[j].name)
              IN  /\ IsProperPrefix(pi, pj) => dj < di
                  /\ (i < j /\ ~IsProperPrefix(pi, pj)) => di < dj
        /\ RootDeclarationIsLast

\* C11 witness: {"profile": {"item": {"a": 1}}} rendered under root User: Item,
\* nested in Profile, is discovered second and declared first.
C11_Witness ==
    /\ Rendered
    /\ value = JObject(<<<<kProfile, vNestedItem>>>>)
    /\ rootTypeName = User
    /\ usedTypeNames = <<User, <<"P", "r", "o", "f", "i", "l", "e">>, Item>>
    /\ Len(namedTypeDefinitions) = 2
    /\ StartsWith(namedTypeDefinitions[1], DeclHeader(Item))
    /\ StartsWith(namedTypeDefinitions[2], DeclHeader(<<"P", "r", "o", "f", "i", "l", "e">>))

\* the characters of the model in the order of their UTF-16 code units
CodeUnitOrder ==
    <<" ", "\"", "-", "/", ".", ":">> \o Digits \o UpperLetters \o <<"\\", "_">> \o LowerLetters

\* -1, 0, 1: a before, equal to, after b by code units
OrdinalCompare(a, b) ==
    CompareWeights([i \in DOMAIN a |-> IndexOf(CodeUnitOrder, a[i])],
                   [i \in DOMAIN b |-> IndexOf(CodeUnitOrder, b[i])], 1)

\* the declaration that holds the body of the object at path: its own when it
\* is hoisted, else that of the nearest hoisted object around it, else the
\* root declaration
RECURSIVE EnclosingDeclaration(_)
EnclosingDeclaration(path) ==
    IF MemoHas(objectNodeToTypeName, path)
    THEN namedTypeDefinitions[DeclarationIndex(NameOfObjectAt(path))]
    ELSE IF path = <<>>
    THEN SubSeq(tsText,
                Len(Join(<<header>> \o namedTypeDefinitions, <<"\n", "\n">>)) + 1,
                Len(tsText))
    ELSE EnclosingDeclaration(DropLast(path, 1))

\* the least position >= from at which part occurs in text, 0 if none
FindFrom(text, part, from) ==
    LET hits == {i \in from..(Len(text) - Len(part) + 1) :
                    SubSeq(text, i, i + Len(part) - 1) = part}
    IN  IF hits = {} THEN 0 ELSE CHOOSE i \in hits : \A j \in hits : i <= j

RECURSIVE OccurInOrder(_, _, _)
\* the parts occur in text one after the other from position from
OccurInOrder(text, parts, from) ==
    IF parts = <<>> THEN TRUE
    ELSE LET at == FindFrom(text, Head(parts), from)
         IN  at # 0 /\ OccurInOrder(text, Tail(parts), at + Len(Head(parts)))

RECURSIVE OrdinalSorted(_)
\* the fields by insertion sort under the code-unit comparison of their keys
OrdinalSorted(fields) ==
    IF fields = <<>> THEN <<>>
    ELSE LET init == OrdinalSorted(DropLast(fields, 1))
             last == fields[Len(fields)]
             before == Cardinality({i \in DOMAIN init :
                                       OrdinalCompare(init[i].key, last.key) <= 0})
         IN  SubSeq(init, 1, before) \o <<last>> \o SubSeq(init, before + 1, Len(init))

\* C12: in every rendered object body the field lines appear sorted by field
\* name under the code-unit comparison, whatever the insertion order; all
\* upper-case ASCII letters sort before the lower-case ones.
C12_FieldsInOrdinalOrder ==
    Rendered =>
        \A s \in ObjectSites :
            LET sorted == OrdinalSorted(s.node.fields)
            IN  OccurInOrder(EnclosingDeclaration(s.path),
                             [i \in DOMAIN sorted |-> FieldLineStart(sorted[i])], 1)

\* the claim's rule: the item text is parenthesized exactly when the item is a
\* Union or a String with a non-empty enumValues list
ParenthesizedItem(itemNode) ==
    \/ itemNode.kind = "union"
    \/ (itemNode.kind = "string" /\ itemNode.hasEnum /\ itemNode.enumValues # <<>>)

RECURSIVE ExpectedTypeText(_, _)
\* the text that stands for the node at path in the output, arrays by the rule
\* of the claim: a hoisted object by its name, an object left in place by its
\* body, a union by its members joined with " | "
ExpectedTypeText(node, path) ==
    CASE node.kind = "any" -> <<"a", "n", "y">>
      [] node.kind = "number" -> <<"n", "u", "m", "b", "e", "r">>
      [] node.kind = "boolean" -> <<"b", "o", "o", "l", "e", "a", "n">>
      [] node.kind = "string" ->
            IF node.hasEnum /\ node.enumValues # <<>>
            THEN Join([i \in DOMAIN node.enumValues |-> JsonStringifyString(node.enumValues[i])],
                      <<" ", "|", " ">>)
            ELSE IF node.isDate THEN <<"s", "t", "r", "i", "n", "g", " ", "|", " ", "D", "a", "t", "e">> ELSE <<"s", "t", "r", "i", "n", "g">>
      [] node.kind = "union" ->
            Join([i \in DOMAIN node.types |->
                     ExpectedTypeText(node.types[i], path \o <<MemberStep(i)>>)], <<" ", "|", " ">>)
      [] node.kind = "array" ->
            LET itemText == ExpectedTypeText(node.items, path \o <<ItemsStep>>)
            IN  (IF ParenthesizedItem(node.items) THEN <<"(">> \o itemText \o <<")">>
                 ELSE itemText) \o <<"[", "]">>
      [] node.kind = "object" ->
            IF MemoHas(objectNodeToTypeName, path) THEN NameOfObjectAt(path)
            ELSE LET sorted == SortFields(node.fields)
                 IN  <<"{">>
                     \o Flatten([i \in DOMAIN sorted |->
                            FieldLineStart(sorted[i])
                            \o ExpectedTypeText(sorted[i].type,
                                                path \o <<FieldStep(sorted[i].key)>>)
                            \o <<";">>])
                     \o <<"\n", "}">>

RECURSIVE HasArrayNode(_)
\* the tree holds an Array node
HasArrayNode(node) ==
    CASE node.kind = "array" -> TRUE
      [] node.kind = "union" -> \E i \in DOMAIN node.types : HasArrayNode(node.types[i])
      [] OTHER -> FALSE

\* C13: an array is rendered as the item text followed by [], the item text in
\* parentheses exactly when the item is a Union or a String with a non-empty
\* enumValues list; for arrays that are field values and for arrays nested in
\* arrays or unions (of a field or of the root).
C13_ArrayItemParenthesizedIffUnionOrEnum ==
    Rendered =>
        /\ \A fs \in FieldSites :
              HasArrayNode(fs.field.type) =>
                  Contains(EnclosingDeclaration(fs.path),
                           FieldLine(fs.field,
                                     ExpectedTypeText(fs.field.type,
                                                      fs.path \o <<FieldStep(fs.field.key)>>)))
        /\ HasArrayNode(inferredTypeTree) =>
              EndsWith(tsText,
                       <<"\n", "\n">> \o <<"e", "x", "p", "o", "r", "t", " ">> \o TypeKeyword(useInterfaceKeyword) \o <<" ">>
                       \o rootTypeName \o <<" ", "=", " ">>
                       \o ExpectedTypeText(inferredTypeTree, <<>>) \o <<";", "\n">>)

\* C13 witness: {"items": [1, ["a", "b"]]} is rendered with the enum in
\* parentheses inside a union that is itself in parentheses.
C13_Witness ==
    /\ Rendered
    /\ value = JObject(<<<<kItems, vNumberOrEnumArray>>>>)
    /\ Contains(tsText, <<" ", " ", "i", "t", "e", "m", "s", ":", " ", "(", "n", "u", "m", "b", "e", "r", " ", "|", " ", "(", "\"", "a", "\"", " ", "|", " ", "\"", "b", "\"", ")", "[", "]", ")", "[", "]", ";">>)

(***************************************************************************)
(* renderTypescriptFromTree called several times in one process, as the    *)
(* renderer's tests do                                                     *)
(***************************************************************************)
\* calls made in one behaviour
MaxCalls == 3

\* the trees rendered: nested hoisted objects, names that collide with the
\* root name Item, an array of string literals, a union holding an object
CallTrees ==
    {inferTypeFromValue(v, InferOptions(TRUE, 2, 12)) :
        v \in {JObject(<<<<kProfile, vNestedItem>>>>),
               JObject(<<<<kItems, vArrayOfObject>>, <<kItem, vEmptyObject>>>>),
               vEnum,
               vNumberOrObject}}

InitCalls ==
    /\ UnifyIdle
    /\ calls = <<>>
    /\ TelemetryIdle
    /\ InputIdle
    /\ MainIdle
    /\ HeapIdle
    /\ pc = "calling"
    /\ value = JNull
    /\ options = InferOptions(TRUE, 2, 12)
    /\ rootTypeName = <<>>
    /\ useInterfaceKeyword = FALSE
    /\ inferredTypeTree = NoTree
    /\ tsText = <<>>
    /\ namedTypeDefinitions = <<>>
    /\ usedTypeNames = <<>>
    /\ objectNodeToTypeName = <<>>

\* one call renderTypescriptFromTree({ rootTypeName, useInterfaceKeyword, rootTypeTree })
RenderCall ==
    /\ pc = "calling"
    /\ Len(calls) < MaxCalls
    /\ \E tree \in CallTrees, name \in {User, Item}, iface \in BOOLEAN :
          /\ inferredTypeTree' = tree
          /\ rootTypeName' = name
          /\ useInterfaceKeyword' = iface
          /\ ReturnRendered(renderTypescriptFromTree(name, iface, tree))
          /\ calls' = Append(calls, [rootTypeName |-> name, useInterfaceKeyword |-> iface,
                                     rootTypeTree |-> tree, text |-> tsText'])
    /\ UNCHANGED <<pc, value, options>>
    /\ UNCHANGED unifyVars
    /\ UNCHANGED telemetryVars
    /\ UNCHANGED inputVars
    /\ UNCHANGED mainVars
    /\ UNCHANGED heapVars

NextCalls == RenderCall

SpecCalls == InitCalls /\ [][NextCalls]_vars

SameCallInputs(c, d) ==
    /\ c.rootTypeName = d.rootTypeName
    /\ c.useInterfaceKeyword = d.useInterfaceKeyword
    /\ c.rootTypeTree = d.rootTypeTree

\* C14: two calls with the same tree, root name and keyword return the same
\* text, whatever calls are made between them; the names and the memo a call
\* leaves are those of its own tree only: the root name first, one name per
\* hoisted object of the tree, nothing of an earlier call.
C14_RenderCallsAreIndependent ==
    /\ \A i, j \in DOMAIN calls :
          SameCallInputs(calls[i], calls[j]) => calls[i].text = calls[j].text
    /\ calls # <<>> =>
          /\ tsText = calls[Len(calls)].text
          /\ usedTypeNames[1] = rootTypeName
          /\ Len(usedTypeNames) = Len(objectNodeToTypeName) + 1
          /\ Len(namedTypeDefinitions) = Len(objectNodeToTypeName)
          /\ \A i \in DOMAIN objectNodeToTypeName :
                objectNodeToTypeName[i].path \in {s.path : s \in ObjectSites}
          /\ \A i, j \in DOMAIN objectNodeToTypeName :
                objectNodeToTypeName[i].path = objectNodeToTypeName[j].path => i = j

\* C14 witness: a tree with hoisted objects is rendered under root Item, then
\* another tree under another name, then the first again with the same text.
C14_Witness ==
    /\ Len(calls) = 3
    /\ SameCallInputs(calls[1], calls[3])
    /\ ~SameCallInputs(calls[1], calls[2])
    /\ calls[1].rootTypeName = Item
    /\ calls[2].rootTypeName = User
    /\ calls[1].rootTypeTree.kind = "object"
    /\ calls[2].rootTypeTree.kind = "object"
    /\ Len(objectNodeToTypeName) = 2
    /\ calls[1].text = calls[3].text
    /\ calls[1].text # calls[2].text

TypeNodeKinds == {"any", "number", "boolean", "string", "array", "union", "object"}

RECURSIVE IsTypeNode(_)
\* a TypeNode of the program: one of its kinds, with the payload of the kind,
\* its parts TypeNodes in turn
IsTypeNode(node) ==
    /\ node.kind \in TypeNodeKinds
    /\ CASE node.kind = "string" ->
                /\ node.isDate \in BOOLEAN
                /\ node.hasEnum \in BOOLEAN
                /\ node.hasSample \in BOOLEAN
         [] node.kind = "array" -> IsTypeNode(node.items)
         [] node.kind = "union" -> \A i \in DOMAIN node.types : IsTypeNode(node.types[i])
         [] node.kind = "object" ->
                /\ \A i \in DOMAIN node.fields :
                      /\ node.fields[i].required \in BOOLEAN
                      /\ IsTypeNode(node.fields[i].type)
                /\ \A i, j \in DOMAIN node.fields :
                      node.fields[i].key = node.fields[j].key => i = j
         [] OTHER -> TRUE

RECURSIVE HasEmptyArray(_)
\* the JSON value holds an empty array
HasEmptyArray(v) ==
    CASE v.t = "array" -> v.elems = <<>> \/ \E i \in DOMAIN v.elems : HasEmptyArray(v.elems[i])
      [] v.t = "object" -> \E i \in DOMAIN v.entries : HasEmptyArray(v.entries[i][2])
      [] OTHER -> FALSE

\* C15: for every JSON value and options what inferTypeFromValue returns is a
\* TypeNode: no TypeError of a fold over an empty sequence stands in it, at
\* any depth, and an empty array is an array of any.
C15_InferenceReturnsATypeNode ==
    Inferred =>
        /\ IsTypeNode(inferredTypeTree)
        /\ value = JArray(<<>>) => inferredTypeTree = ArrayNode(AnyNode)

\* C15 witness: [[], 1], an empty array inside an array, has been inferred as
\* an array of any[] | number.
C15_Witness ==
    /\ Inferred
    /\ value = JArray(<<JArray(<<>>), JNumber>>)
    /\ HasEmptyArray(value)
    /\ inferredTypeTree = ArrayNode(UnionNode(<<ArrayNode(AnyNode), NumberNode>>))

\* C16: unifyTypes(x, x) is structurally equal to x; whenever a and b are
\* structurally equal unifyTypes(a, b) is the first operand unchanged, with
\* its own sample and its own order of fields.
C16_EqualOperandsReturnFirst ==
    Unified =>
        /\ areTypesEqual(ua, ua)
        /\ ua = ub => (ur = ua /\ areTypesEqual(ur, ua))
        /\ areTypesEqual(ua, ub) => ur = ua

\* C16 witness: two String nodes that differ only in their sample have been
\* unified, and the sample of the first is the one kept.
C16_Witness ==
    /\ Unified
    /\ ua = StringNode(FALSE, FALSE, <<>>, TRUE, sA)
    /\ ub = StringNode(FALSE, FALSE, <<>>, TRUE, sB)
    /\ areTypesEqual(ua, ub)
    /\ ur.sample = sA

\* C17: unifyTypes(a, b) is structurally equal, by areTypesEqual, to
\* unifyTypes(b, a).
C17_UnifyCommutesUpToEquality ==
    Unified => areTypesEqual(ur, unifyTypes(ub, ua))

RECURSIVE UnionsOf(_)
\* the Union nodes of a tree
UnionsOf(node) ==
    CASE node.kind = "union" ->
            {node} \cup UNION {UnionsOf(node.types[i]) : i \in DOMAIN node.types}
      [] node.kind = "array" -> UnionsOf(node.items)
      [] node.kind = "object" ->
            UNION {UnionsOf(node.fields[i].type) : i \in DOMAIN node.fields}
      [] OTHER -> {}

\* at least two members, no two of them structurally equal
HasDistinctMembers(union) ==
    /\ Len(union.types) >= 2
    /\ \A i, j \in DOMAIN union.types :
          areTypesEqual(union.types[i], union.types[j]) => i = j

\* C18: in every tree returned by inferTypeFromValue and in every result of
\* unifyTypes no Union has two structurally equal members and every Union has
\* at least 2 members, also when both operands are unions that share a member.
C18_UnionMembersDistinct ==
    /\ Inferred => \A u \in UnionsOf(inferredTypeTree) : HasDistinctMembers(u)
    /\ Unified => \A u \in UnionsOf(ur) : HasDistinctMembers(u)

\* C19: a Union in a result of unifyTypes, all of them results of
\* normalizeUnionType, never has a Union as a direct member, never has an Any
\* member, and never has exactly one member.
C19_NormalizedUnionsAreFlat ==
    Unified =>
        \A u \in UnionsOf(ur) :
            /\ \A i \in DOMAIN u.types : u.types[i].kind \notin {"union", "any"}
            /\ Len(u.types) # 1

\* C19 witness: number | string unified with string | boolean, two unions: the
\* second is spread into the first and the result is a flat union.
C19_Witness ==
    /\ Unified
    /\ ua.kind = "union"
    /\ ub.kind = "union"
    /\ ~areTypesEqual(ua, ub)
    /\ ur.kind = "union"
    /\ Len(ur.types) >= 3
    /\ \A i \in DOMAIN ur.types : ur.types[i].kind # "union"

(***************************************************************************)
(* The start of main: arguments, telemetry preference, run event           *)
(***************************************************************************)
\* longest argument list
MaxArgs == 2

\* the flags parseCommandLineArguments knows: flag, key set, whether the value
\* is the next token (else true)
KnownFlags ==
    <<[flag |-> "--model-name", key |-> "model-name", takesNext |-> TRUE],
      [flag |-> "--input-json", key |-> "input-json", takesNext |-> TRUE],
      [flag |-> "--out", key |-> "out", takesNext |-> TRUE],
      [flag |-> "--interface", key |-> "interface", takesNext |-> FALSE],
      [flag |-> "--no-dates", key |-> "no-dates", takesNext |-> FALSE],
      [flag |-> "--string-enum-min", key |-> "string-enum-min", takesNext |-> TRUE],
      [flag |-> "--string-enum-max", key |-> "string-enum-max", takesNext |-> TRUE],
      [flag |-> "--no-banner", key |-> "no-banner", takesNext |-> FALSE],
      [flag |-> "--no-color", key |-> "no-color", takesNext |-> FALSE]>>

RECURSIVE ParseFrom(_, _, _)
\* the loop of parseCommandLineArguments from token i; parsed is a sequence of
\* <<key, value>> in the order the keys were set, a later value replacing an
\* earlier one
ParseFrom(tokens, i, parsed) ==
    IF i > Len(tokens) THEN parsed
    ELSE LET known == {k \in DOMAIN KnownFlags : KnownFlags[k].flag = tokens[i]}
         IN  IF known = {} THEN ParseFrom(tokens, i + 1, parsed)
             ELSE LET f == KnownFlags[CHOOSE k \in known : TRUE]
                      v == IF ~f.takesNext THEN "true"
                           ELSE IF i + 1 <= Len(tokens) THEN tokens[i + 1]
                           ELSE "undefined"
                      others == SelectSeq(parsed, LAMBDA e : e[1] # f.key)
                  IN  ParseFrom(tokens, i + 1, Append(others, <<f.key, v>>))

parseCommandLineArguments(tokens) == ParseFrom(tokens, 1, <<>>)

\* parsed[key] is truthy
ArgIsTruthy(parsed, key) ==
    \E i \in DOMAIN parsed :
        parsed[i][1] = key /\ parsed[i][2] \notin {"undefined", ""}

ArgTokens == {"--no-telemetry", "--interface", "--model-name", "User"}

InitTelemetry ==
    /\ UnifyIdle
    /\ RunIdle
    /\ calls = <<>>
    /\ InputIdle
    /\ MainIdle
    /\ HeapIdle
    /\ tpc = "start"
    /\ argvList \in {<<>>} \cup SeqsUpTo(ArgTokens, MaxArgs)
    /\ parsedArgs = <<>>
    /\ envTelemetry \in {"undefined", "0", "1"}
    /\ posthogKey \in BOOLEAN
    /\ stdinIsTTY \in BOOLEAN
    /\ telemetryConfig \in [telemetry : {"undefined", "true", "false"}, anonymousId : BOOLEAN]
    /\ telemetryAllowed = FALSE
    /\ promptShown = FALSE
    /\ configSaved = FALSE
    /\ captureRunEventCalled = FALSE
    /\ eventSent = FALSE

\* main: const args = parseCommandLineArguments(argvList)
ParseArguments ==
    /\ tpc = "start"
    /\ parsedArgs' = parseCommandLineArguments(argvList)
    /\ tpc' = "parsed"
    /\ UNCHANGED <<argvList, envTelemetry, posthogKey, stdinIsTTY, telemetryConfig,
                   telemetryAllowed, promptShown, configSaved, captureRunEventCalled,
                   eventSent>>
    /\ UNCHANGED <<runVars, unifyVars, callVars, inputVars, mainVars, heapVars>>

\* the hard off switches of getOrEstablishTelemetryPreference
HardOff == envTelemetry = "0" \/ ArgIsTruthy(parsedArgs, "no-telemetry")

\* getOrEstablishTelemetryPreference up to its return or to its prompt
EstablishPreference ==
    /\ tpc = "parsed"
    /\ IF HardOff
       THEN /\ telemetryAllowed' = FALSE
            /\ tpc' = "decided"
            /\ UNCHANGED <<telemetryConfig, promptShown, configSaved>>
       ELSE IF telemetryConfig.telemetry # "undefined"
       THEN /\ telemetryAllowed' = (telemetryConfig.telemetry = "true")
            /\ tpc' = "decided"
            /\ UNCHANGED <<telemetryConfig, promptShown, configSaved>>
       ELSE IF ~stdinIsTTY
       THEN /\ telemetryConfig' = [telemetryConfig EXCEPT !.telemetry = "false"]
            /\ configSaved' = TRUE
            /\ telemetryAllowed' = FALSE
            /\ tpc' = "decided"
            /\ UNCHANGED promptShown
       ELSE /\ promptShown' = TRUE
            /\ tpc' = "prompting"
            /\ UNCHANGED <<telemetryConfig, configSaved, telemetryAllowed>>
    /\ UNCHANGED <<argvList, parsedArgs, envTelemetry, posthogKey, stdinIsTTY,
                   captureRunEventCalled, eventSent>>
    /\ UNCHANGED <<runVars, unifyVars, callVars, inputVars, mainVars, heapVars>>

\* the line typed at the consent prompt, trimmed and lower-cased
AnswerConsent ==
    /\ tpc = "prompting"
    /\ \E answer \in {"y", "n", "yes", ""} :
          /\ telemetryAllowed' = (answer = "y")
          /\ telemetryConfig' =
                [telemetryConfig EXCEPT !.telemetry = IF answer = "y" THEN "true" ELSE "false"]
    /\ configSaved' = TRUE
    /\ tpc' = "decided"
    /\ UNCHANGED <<argvList, parsedArgs, envTelemetry, posthogKey, stdinIsTTY, promptShown,
                   captureRunEventCalled, eventSent>>
    /\ UNCHANGED <<runVars, unifyVars, callVars, inputVars, mainVars, heapVars>>

\* main: if (telemetryAllowed) telemetry.captureRunEvent(args), with
\* getOrCreateAnonymousId when a key is configured
CaptureRun ==
    /\ tpc = "decided"
    /\ telemetryAllowed
    /\ captureRunEventCalled' = TRUE
    /\ IF posthogKey
       THEN /\ eventSent' = TRUE
            /\ telemetryConfig' = [telemetryConfig EXCEPT !.anonymousId = TRUE]
            /\ configSaved' = (configSaved \/ ~telemetryConfig.anonymousId)
       ELSE UNCHANGED <<eventSent, telemetryConfig, configSaved>>
    /\ tpc' = "done"
    /\ UNCHANGED <<argvList, parsedArgs, envTelemetry, posthogKey, stdinIsTTY,
                   telemetryAllowed, promptShown>>
    /\ UNCHANGED <<runVars, unifyVars, callVars, inputVars, mainVars, heapVars>>

\* main: telemetry not allowed, the run goes on without an event
SkipCapture ==
    /\ tpc = "decided"
    /\ ~telemetryAllowed
    /\ tpc' = "done"
    /\ UNCHANGED <<argvList, parsedArgs, envTelemetry, posthogKey, stdinIsTTY,
                   telemetryConfig, telemetryAllowed, promptShown, configSaved,
                   captureRunEventCalled, eventSent>>
    /\ UNCHANGED <<runVars, unifyVars, callVars, inputVars, mainVars, heapVars>>

NextTelemetry ==
    ParseArguments \/ EstablishPreference \/ AnswerConsent \/ CaptureRun \/ SkipCapture

SpecTelemetry == InitTelemetry /\ [][NextTelemetry]_vars

\* C20: run with --no-telemetry, main does not prompt for consent, does not
\* write the preference file and never calls captureRunEvent, whatever is
\* stored and whether or not stdin is a TTY.
C20_NoTelemetryFlagDisablesTelemetry ==
    ("--no-telemetry" \in Range(argvList)) =>
        /\ ~promptShown
        /\ ~configSaved
        /\ ~captureRunEventCalled

(***************************************************************************)
(* Interactive JSON input: promptJsonUntilValid                            *)
(***************************************************************************)
\* most lines the reader delivers
MaxLines == 3

\* JSON whitespace
IsJsonWhitespace(c) == c \in {" ", "\n", "\t", "\r"}

HexDigits == Digits \cup {"a", "b", "c", "d", "e", "f", "A", "B", "C", "D", "E", "F"}

\* a scanner state of JSON.parse: open brackets, what is expected next, the
\* characters a literal or a \u escape still requires, and the mode after them
JsonState(stack, mode, pending, ret) ==
    [stack |-> stack, mode |-> mode, pending |-> pending, ret |-> ret]

JsonRejected == JsonState(<<>>, "error", <<>>, "error")

JsonTo(s, mode) == JsonState(s.stack, mode, <<>>, mode)

JsonPush(s, bracket, mode) == JsonState(Append(s.stack, bracket), mode, <<>>, mode)

JsonPop(s, bracket) ==
    IF s.stack # <<>> /\ s.stack[Len(s.stack)] = bracket
    THEN JsonState(SubSeq(s.stack, 1, Len(s.stack) - 1), "after", <<>>, "after")
    ELSE JsonRejected

\* after a value: a separator, a closing bracket or whitespace
JsonAfterValue(s, c) ==
    IF IsJsonWhitespace(c) THEN JsonTo(s, "after")
    ELSE IF c = "," /\ s.stack # <<>>
    THEN JsonTo(s, IF s.stack[Len(s.stack)] = "[" THEN "value" ELSE "key")
    ELSE IF c = "]" THEN JsonPop(s, "[")
    ELSE IF c = "}" THEN JsonPop(s, "{")
    ELSE JsonRejected

\* where a value may start
JsonValueStart(s, c) ==
    IF IsJsonWhitespace(c) THEN s
    ELSE IF c = "[" THEN JsonPush(s, "[", "valueOrClose")
    ELSE IF c = "{" THEN JsonPush(s, "{", "keyOrClose")
    ELSE IF c = "\"" THEN JsonTo(s, "str")
    ELSE IF c = "0" THEN JsonTo(s, "num0")
    ELSE IF IsDigit(c) THEN JsonTo(s, "num")
    ELSE IF c = "n" THEN JsonState(s.stack, "pending", <<{"u"}, {"l"}, {"l"}>>, "after")
    ELSE IF c = "t" THEN JsonState(s.stack, "pending", <<{"r"}, {"u"}, {"e"}>>, "after")
    ELSE IF c = "f" THEN JsonState(s.stack, "pending", <<{"a"}, {"l"}, {"s"}, {"e"}>>, "after")
    ELSE IF c = "]" /\ s.mode = "valueOrClose" THEN JsonPop(s, "[")
    ELSE JsonRejected

\* where a key may start
JsonKeyStart(s, c) ==
    IF IsJsonWhitespace(c) THEN s
    ELSE IF c = "\"" THEN JsonTo(s, "keystr")
    ELSE IF c = "}" /\ s.mode = "keyOrClose" THEN JsonPop(s, "{")
    ELSE JsonRejected

\* inside a string or a key
JsonInString(s, c) ==
    IF c = "\"" THEN JsonTo(s, IF s.mode = "str" THEN "after" ELSE "colon")
    ELSE IF c = "\\" THEN JsonTo(s, IF s.mode = "str" THEN "stresc" ELSE "keystresc")
    ELSE IF c \in {"\n", "\t", "\r"} THEN JsonRejected
    ELSE s

\* the character after a backslash
JsonEscape(s, c) ==
    IF c \in {"\"", "\\", "/", "b", "f", "n", "r", "t"}
    THEN JsonTo(s, IF s.mode = "stresc" THEN "str" ELSE "keystr")
    ELSE IF c = "u"
    THEN JsonState(s.stack, "pending", <<HexDigits, HexDigits, HexDigits, HexDigits>>,
                   IF s.mode = "stresc" THEN "str" ELSE "keystr")
    ELSE JsonRejected

\* the rest of a literal or of a \u escape
JsonPending(s, c) ==
    IF c \notin Head(s.pending) THEN JsonRejected
    ELSE IF Len(s.pending) = 1 THEN JsonTo(s, s.ret)
    ELSE JsonState(s.stack, "pending", Tail(s.pending), s.ret)

\* one character of JSON.parse
JsonStep(s, c) ==
    CASE s.mode \in {"value", "valueOrClose"} -> JsonValueStart(s, c)
      [] s.mode \in {"key", "keyOrClose"} -> JsonKeyStart(s, c)
      [] s.mode = "colon" ->
            IF IsJsonWhitespace(c) THEN s
            ELSE IF c = ":" THEN JsonTo(s, "value") ELSE JsonRejected
      [] s.mode = "num" -> IF IsDigit(c) THEN s ELSE JsonAfterValue(s, c)
      [] s.mode = "num0" -> IF IsDigit(c) THEN JsonRejected ELSE JsonAfterValue(s, c)
      [] s.mode = "after" -> JsonAfterValue(s, c)
      [] s.mode \in {"str", "keystr"} -> JsonInString(s, c)
      [] s.mode \in {"stresc", "keystresc"} -> JsonEscape(s, c)
      [] s.mode = "pending" -> JsonPending(s, c)
      [] OTHER -> JsonRejected

RECURSIVE JsonScan(_, _, _)
JsonScan(text, i, s) ==
    IF i > Len(text) THEN s ELSE JsonScan(text, i + 1, JsonStep(s, text[i]))

\* JSON.parse(text) does not throw: one value (integers, strings, literals,
\* arrays, objects) with whitespace around it
JsonParses(text) ==
    LET s == JsonScan(text, 1, JsonState(<<>>, "value", <<>>, "value"))
    IN  s.mode \in {"after", "num", "num0"} /\ s.stack = <<>>

\* line.trim()
RECURSIVE TrimStart(_)
TrimStart(s) ==
    IF s # <<>> /\ IsJsonWhitespace(Head(s)) THEN TrimStart(Tail(s)) ELSE s

RECURSIVE TrimEnd(_)
TrimEnd(s) ==
    IF s # <<>> /\ IsJsonWhitespace(s[Len(s)]) THEN TrimEnd(SubSeq(s, 1, Len(s) - 1)) ELSE s

Trim(s) == TrimEnd(TrimStart(s))

\* the balance state of promptJsonUntilValid
Balance(d, str, esc) == [depth |-> d, inString |-> str, escaped |-> esc]

\* one iteration of the loop of updateBalance
BalanceStep(b, ch) ==
    IF b.inString
    THEN IF b.escaped THEN Balance(b.depth, TRUE, FALSE)
         ELSE IF ch = "\\" THEN Balance(b.depth, TRUE, TRUE)
         ELSE IF ch = "\"" THEN Balance(b.depth, FALSE, b.escaped)
         ELSE b
    ELSE IF ch = "\"" THEN Balance(b.depth, TRUE, b.escaped)
         ELSE IF ch \in {"{", "["} THEN Balance(b.depth + 1, FALSE, b.escaped)
         ELSE IF ch \in {"}", "]"} THEN Balance(b.depth - 1, FALSE, b.escaped)
         ELSE b

RECURSIVE updateBalance(_, _, _)
updateBalance(chunk, i, b) ==
    IF i > Len(chunk) THEN b ELSE updateBalance(chunk, i + 1, BalanceStep(b, chunk[i]))

bufferIsValidJson(buf) == JsonParses(buf)

IsSentinelLine(trimmed) ==
    trimmed \in {<<":", "e", "n", "d">>, <<"E", "N", "D">>, <<"E", "O", "F">>}

\* the character U+0060 (grave accent), which a string of this language cannot hold
Backtick == "U+0060"

IsFenceLine(trimmed) == trimmed = <<Backtick, Backtick, Backtick>>

\* the buffer once a fence has been opened, left unchanged
MutBufferAtFenceOpenKept(buf) == buf

\* buffer = "" when a fence opens
BufferAtFenceOpen(buf) == <<>>

\* the balance checks are made in a fence as well
MutChecksSkippedNever(fence) == FALSE

\* while inside a code fence the balance checks are skipped
ChecksSkipped(fence) == fence

\* (buffer ? "\n" : "") + line
ChunkOf(buf, line) == (IF buf # <<>> THEN <<"\n">> ELSE <<>>) \o line

\* lines typed or pasted at the prompt
InputLines ==
    {<<":", "e", "n", "d">>, <<"E", "N", "D">>, <<" ", "E", "O", "F", " ">>, <<"e", "n", "d">>,
     <<Backtick, Backtick, Backtick>>, <<" ", Backtick, Backtick, Backtick>>,
     <<Backtick, Backtick, Backtick, "j", "s", "o", "n">>,
     <<>>, <<"1">>, <<"[">>, <<"]">>, <<"\"", "a">>, <<"b", "\"">>, <<"{", "\"", "a", "\"", ":">>, <<"1", "}">>}

\* promptJsonUntilValid has been called: the reader is open, nothing is read
InitInput ==
    /\ UnifyIdle
    /\ RunIdle
    /\ calls = <<>>
    /\ TelemetryIdle
    /\ MainIdle
    /\ HeapIdle
    /\ linesRead = <<>>
    /\ buffer = <<>>
    /\ depth = 0
    /\ inString = FALSE
    /\ escaped = FALSE
    /\ inFence = FALSE
    /\ rlClosed = FALSE
    /\ stdinEnded = FALSE
    /\ resolvedTexts = <<>>

\* rl.close() with the close handler: resolve(buffer)
CloseReader(text) ==
    /\ rlClosed' = TRUE
    /\ resolvedTexts' = Append(resolvedTexts, text)

\* the end of the line handler after buffer += chunk, outside a fence
CheckAfterAppend(trimmed, text, b) ==
    /\ depth' = b.depth
    /\ inString' = b.inString
    /\ escaped' = b.escaped
    /\ IF b.depth = 0 /\ ~b.inString
          /\ ((trimmed = <<>> /\ bufferIsValidJson(text)) \/ bufferIsValidJson(text))
       THEN CloseReader(text)
       ELSE UNCHANGED <<rlClosed, resolvedTexts>>

\* buffer += chunk and what follows
AppendLine(trimmed, chunk) ==
    /\ buffer' = buffer \o chunk
    /\ IF ChecksSkipped(inFence)
       THEN UNCHANGED <<depth, inString, escaped, rlClosed, resolvedTexts>>
       ELSE CheckAfterAppend(trimmed, buffer \o chunk,
                             updateBalance(chunk, 1, Balance(depth, inString, escaped)))
    /\ UNCHANGED inFence

\* the line handler for a line whose trimmed text is given
HandleLine(line, trimmed) ==
    IF IsSentinelLine(trimmed)
    THEN /\ CloseReader(buffer)
         /\ UNCHANGED <<buffer, depth, inString, escaped, inFence>>
    ELSE IF IsFenceLine(trimmed)
    THEN IF ~inFence
         THEN /\ inFence' = TRUE
              /\ buffer' = BufferAtFenceOpen(buffer)
              /\ UNCHANGED <<depth, inString, escaped, rlClosed, resolvedTexts>>
         ELSE /\ inFence' = FALSE
              /\ CloseReader(buffer)
              /\ UNCHANGED <<buffer, depth, inString, escaped>>
    ELSE AppendLine(trimmed, ChunkOf(buffer, line))

\* rl.on("line", ...)
OnLine ==
    /\ ~rlClosed
    /\ Len(linesRead) < MaxLines
    /\ \E line \in InputLines :
          /\ linesRead' = Append(linesRead, line)
          /\ HandleLine(line, Trim(line))
    /\ UNCHANGED stdinEnded
    /\ UNCHANGED <<runVars, unifyVars, callVars, telemetryVars, mainVars, heapVars>>

\* the input ends: the reader closes, rl.on("close", ...) resolves
OnEnd ==
    /\ ~rlClosed
    /\ stdinEnded' = TRUE
    /\ CloseReader(buffer)
    /\ UNCHANGED <<linesRead, buffer, depth, inString, escaped, inFence>>
    /\ UNCHANGED <<runVars, unifyVars, callVars, telemetryVars, mainVars, heapVars>>

NextInput == OnLine \/ OnEnd

SpecInput == InitInput /\ [][NextInput]_vars

\* brackets outside strings are balanced over a whole text and no string is open
BalancedOutsideStrings(text) ==
    LET b == updateBalance(text, 1, Balance(0, FALSE, FALSE))
    IN  b.depth = 0 /\ ~b.inString

\* the lines of a sequence after its leading empty lines
RECURSIVE DropLeadingEmpty(_)
DropLeadingEmpty(lines) ==
    IF lines # <<>> /\ Head(lines) = <<>> THEN DropLeadingEmpty(Tail(lines)) ELSE lines

\* the text accumulated from lines: joined by line feeds, empty lines before
\* the first text left out
AccumulatedText(lines) == Join(DropLeadingEmpty(lines), <<"\n">>)

RECURSIVE SplitLines(_, _)
\* text.split("\n"), cur being the line in progress
SplitLines(text, cur) ==
    IF text = <<>> THEN <<cur>>
    ELSE IF Head(text) = "\n" THEN <<cur>> \o SplitLines(Tail(text), <<>>)
    ELSE SplitLines(Tail(text), Append(cur, Head(text)))

\* what reading lines from position i leads to, by the four ways input ends:
\* kept are the lines since the last opening of a fence, open tells whether a
\* fence is open; the result tells the first line that ends input, if any
RECURSIVE ReadOutcome(_, _, _, _)
ReadOutcome(lines, i, kept, open) ==
    IF i > Len(lines) THEN [ended |-> FALSE, at |-> 0, kept |-> kept, open |-> open]
    ELSE LET t == Trim(lines[i])
         IN  IF IsSentinelLine(t) \/ (IsFenceLine(t) /\ open)
             THEN [ended |-> TRUE, at |-> i, kept |-> kept, open |-> FALSE]
             ELSE IF IsFenceLine(t) THEN ReadOutcome(lines, i + 1, <<>>, TRUE)
             ELSE IF /\ ~open
                     /\ BalancedOutsideStrings(AccumulatedText(Append(kept, lines[i])))
                     /\ JsonParses(AccumulatedText(Append(kept, lines[i])))
             THEN [ended |-> TRUE, at |-> i, kept |-> Append(kept, lines[i]), open |-> FALSE]
             ELSE ReadOutcome(lines, i + 1, Append(kept, lines[i]), open)

\* C21: promptJsonUntilValid closes the reader and resolves once, with the
\* accumulated buffer, at the first of: a sentinel line, the closing line of a
\* fence, the end of input, or, outside a fence, a line after which the buffer
\* is balanced and parses as JSON. In an open fence valid JSON does not end
\* input, opening a fence discards what was read, and no sentinel or fence
\* line is part of the resolved text.
C21_InputEndsAtFirstEndingEvent ==
    LET o == ReadOutcome(linesRead, 1, <<>>, FALSE)
    IN  /\ Len(resolvedTexts) <= 1
        /\ rlClosed <=> Len(resolvedTexts) = 1
        /\ ~rlClosed => (~o.ended /\ ~stdinEnded /\ inFence = o.open)
        /\ rlClosed =>
              /\ IF stdinEnded THEN ~o.ended ELSE o.ended /\ o.at = Len(linesRead)
              /\ resolvedTexts[1] = AccumulatedText(o.kept)
              /\ \A l \in Range(SplitLines(resolvedTexts[1], <<>>)) :
                    ~IsSentinelLine(Trim(l)) /\ ~IsFenceLine(Trim(l))

\* text was read, a fence was opened, valid JSON in the fence did not end
\* input, the closing fence did, and only the text of the fence is resolved
C21_Witness ==
    /\ rlClosed
    /\ ~stdinEnded
    /\ Len(linesRead) = 3
    /\ IsFenceLine(Trim(linesRead[1]))
    /\ JsonParses(linesRead[2])
    /\ IsFenceLine(Trim(linesRead[3]))
    /\ resolvedTexts = <<linesRead[2]>>

(***************************************************************************)
(* main from its try block on: model name, input, parse, infer, render,    *)
(* write, exit codes                                                       *)
(***************************************************************************)
\* a value is truthy: neither undefined nor the empty string
Truthy(s) == s # Undefined /\ s # <<>>

\* the prompt for the model name gets no line: the input ends first
NoLine == <<"no line">>

\* what is typed at the prompt for the model name
NameAnswers == {NoLine, <<>>, <<" ">>, User, <<" ">> \o User \o <<" ">>}

\* JSON texts main can be given, with the value JSON.parse returns for the
\* texts that parse
MainTexts ==
    {[text |-> <<>>, value |-> JNull],
     [text |-> <<" ", "\n">>, value |-> JNull],
     [text |-> <<"1">>, value |-> JNumber],
     [text |-> <<"n", "u", "l", "l">>, value |-> JNull],
     [text |-> <<"{", "\"", "a", "\"", ":", "1", "}">>, value |-> JObject(<<<<kA, JNumber>>>>)],
     [text |-> <<"[", "{", "\"", "a", "\"", ":", "1", "}", "]">>, value |-> JArray(<<JObject(<<<<kA, JNumber>>>>)>>)],
     [text |-> <<"[", "1", ",">>, value |-> JNull],
     [text |-> <<"{", "a", ":", "1", "}">>, value |-> JNull]}

\* JSON.parse(text) for a text that parses
JsonValueOf(text) == (CHOOSE e \in MainTexts : e.text = text).value

\* where step 3 of main takes the JSON text from
InputSource ==
    IF Truthy(mainArgs.inputJson) THEN "file" ELSE IF ~isTty THEN "stdin" ELSE "prompt"

InitMain ==
    /\ UnifyIdle
    /\ RunIdle
    /\ calls = <<>>
    /\ TelemetryIdle
    /\ InputIdle
    /\ HeapIdle
    /\ mpc = "start"
    /\ mainArgs \in {MainArgs(m, i, o, f) :
                        m \in {Undefined, <<>>, <<" ">>, User},
                        i \in {Undefined, <<"i", "n", ".", "j", "s", "o", "n">>},
                        o \in {Undefined, <<"/", "o", "u", "t", "/", "u", "s", "e", "r", ".", "t", "s">>},
                        f \in BOOLEAN}
    /\ isTty \in BOOLEAN
    /\ cwdExists \in BOOLEAN
    /\ rawJsonInput = <<>>
    /\ exitCode = -1
    /\ outputFile = <<>>
    /\ envEvents = {}

\* process.exit(code)
Exit(code) ==
    /\ mpc' = "ended"
    /\ exitCode' = code

\* main returns, or waits for a promise nothing will settle: the process ends
\* by itself
EndWithoutExit ==
    /\ mpc' = "ended"
    /\ exitCode' = 0

\* steps 1 and 2 of main once the model name is there
CheckModelName(name) ==
    /\ rootTypeName' = name
    /\ IF name = <<>>
       THEN Exit(1) /\ UNCHANGED envEvents
       ELSE IF ~Truthy(mainArgs.out) /\ ~cwdExists
       THEN Exit(3) /\ envEvents' = envEvents \cup {"cwdFailed"}
       ELSE mpc' = "named" /\ UNCHANGED <<exitCode, envEvents>>

\* step 1 of main, with promptSingleLine when --model-name gives nothing, and
\* step 2
ObtainModelName ==
    /\ mpc = "start"
    /\ IF Truthy(mainArgs.modelName)
       THEN CheckModelName(mainArgs.modelName)
       ELSE \E answer \in NameAnswers :
               IF answer = NoLine
               THEN /\ EndWithoutExit
                    /\ envEvents' = envEvents \cup {"nameInputEnded"}
                    /\ UNCHANGED rootTypeName
               ELSE CheckModelName(Trim(answer))
    /\ UNCHANGED <<mainArgs, isTty, cwdExists, rawJsonInput, outputFile>>
    /\ UNCHANGED <<pc, value, options, useInterfaceKeyword, inferredTypeTree, tsText,
                   namedTypeDefinitions, usedTypeNames, objectNodeToTypeName>>
    /\ UNCHANGED <<unifyVars, callVars, telemetryVars, inputVars, heapVars>>

\* the read of step 3 throws or rejects: the inner catch exits with 1
ReadFails ==
    /\ InputSource # "prompt"
    /\ envEvents' = envEvents \cup {"readFailed"}
    /\ Exit(1)
    /\ UNCHANGED rawJsonInput

\* the read of step 3 returns a text
ReadReturns(text) ==
    /\ InputSource = "file" => cwdExists
    /\ rawJsonInput' = text
    /\ envEvents' = envEvents \cup {"inputRead"}
    /\ mpc' = "read"
    /\ UNCHANGED exitCode

\* step 3 of main: file, piped stdin or interactive paste
ReadInput ==
    /\ mpc = "named"
    /\ \/ ReadFails
       \/ \E e \in MainTexts : ReadReturns(e.text)
    /\ UNCHANGED <<mainArgs, isTty, cwdExists, outputFile>>
    /\ UNCHANGED <<runVars, unifyVars, callVars, telemetryVars, inputVars, heapVars>>

\* the check for empty input and step 4 and 5 of main
ParseInput ==
    /\ mpc = "read"
    /\ IF rawJsonInput = <<>> \/ Trim(rawJsonInput) = <<>> \/ ~JsonParses(rawJsonInput)
       THEN /\ Exit(1)
            /\ UNCHANGED <<pc, value, options, useInterfaceKeyword>>
       ELSE /\ value' = JsonValueOf(rawJsonInput)
            /\ options' = InferOptions(TRUE, 2, 12)
            /\ useInterfaceKeyword' = mainArgs.interface
            /\ pc' = "start"
            /\ mpc' = "parsed"
            /\ UNCHANGED exitCode
    /\ UNCHANGED <<mainArgs, isTty, cwdExists, rawJsonInput, outputFile, envEvents>>
    /\ UNCHANGED <<rootTypeName, inferredTypeTree, tsText, namedTypeDefinitions,
                   usedTypeNames, objectNodeToTypeName>>
    /\ UNCHANGED <<unifyVars, callVars, telemetryVars, inputVars, heapVars>>

\* path.relative(process.cwd(), outputFilePath) in a message: it throws when
\* the working directory is gone, and the outer catch exits with 3
ReportWithRelativePath(code, events) ==
    IF cwdExists
    THEN (IF code = 0 THEN EndWithoutExit ELSE Exit(code)) /\ envEvents' = events
    ELSE Exit(3) /\ envEvents' = events \cup {"cwdFailed"}

\* step 8 of main and its end
WriteOutput ==
    /\ mpc = "parsed"
    /\ pc = "rendered"
    /\ \/ /\ outputFile' = Append(outputFile, tsText)
          /\ ReportWithRelativePath(0, envEvents)
       \/ /\ UNCHANGED outputFile
          /\ ReportWithRelativePath(2, envEvents \cup {"writeFailed"})
    /\ UNCHANGED <<mainArgs, isTty, cwdExists, rawJsonInput>>
    /\ UNCHANGED <<runVars, unifyVars, callVars, telemetryVars, inputVars, heapVars>>

NextMain == ObtainModelName \/ ReadInput \/ ParseInput \/ Infer \/ Render \/ WriteOutput

SpecMain == InitMain /\ [][NextMain]_vars

\* C22: main writes the output file only after a non-empty model name was
\* obtained, the JSON text was non-empty and parsed, and inference and
\* rendering returned; a missing model name, empty input or invalid JSON ends
\* the run with exit code 1 and no file written, a failed write with exit code
\* 2, any other unexpected error with exit code 3.
C22_WriteLastAndExitCodes ==
    /\ outputFile # <<>> =>
          /\ rootTypeName # <<>>
          /\ Trim(rawJsonInput) # <<>>
          /\ JsonParses(rawJsonInput)
          /\ pc = "rendered"
          /\ outputFile = <<tsText>>
    /\ mpc = "ended" =>
          /\ (\/ rootTypeName = <<>>
              \/ /\ "inputRead" \in envEvents
                 /\ (Trim(rawJsonInput) = <<>> \/ ~JsonParses(rawJsonInput)))
                => (exitCode = 1 /\ outputFile = <<>>)
          /\ "writeFailed" \in envEvents => exitCode = 2
          /\ ("cwdFailed" \in envEvents /\ "writeFailed" \notin envEvents) => exitCode = 3

RECURSIVE SameShape(_, _)
\* two nodes have the same shape: union members compared as sets, enum values
\* as sets, fields by key, samples ignored
SameShape(a, b) ==
    IF a.kind # b.kind THEN FALSE
    ELSE CASE a.kind = "string" ->
                /\ a.isDate = b.isDate
                /\ a.hasEnum = b.hasEnum
                /\ Range(a.enumValues) = Range(b.enumValues)
           [] a.kind = "array" -> SameShape(a.items, b.items)
           [] a.kind = "object" ->
                /\ Range(FieldKeys(a.fields)) = Range(FieldKeys(b.fields))
                /\ \A i \in DOMAIN a.fields :
                      /\ a.fields[i].required = GetField(b.fields, a.fields[i].key).required
                      /\ SameShape(a.fields[i].type, GetField(b.fields, a.fields[i].key).type)
           [] a.kind = "union" ->
                /\ \A i \in DOMAIN a.types : \E j \in DOMAIN b.types :
                      SameShape(a.types[i], b.types[j])
                /\ \A j \in DOMAIN b.types : \E i \in DOMAIN a.types :
                      SameShape(a.types[i], b.types[j])
           [] OTHER -> TRUE

\* C23: unifyTypes is commutative up to ordering: unifyTypes(a, b) and
\* unifyTypes(b, a) have the same shape when union members and enum values are
\* compared as sets, fields by key, and samples are ignored.
C23_UnifyCommutesUpToOrdering ==
    Unified => SameShape(ur, unifyTypes(ub, ua))

\* both orders were unified and the results differ as values
C23_Witness ==
    /\ Unified
    /\ ur # unifyTypes(ub, ua)
    /\ ur.kind = "union"
    /\ ua.kind = "union"
    /\ ub.kind = "union"

RECURSIVE StringNodesOf(_)
\* the String nodes of a tree
StringNodesOf(node) ==
    CASE node.kind = "string" -> {node}
      [] node.kind = "array" -> StringNodesOf(node.items)
      [] node.kind = "object" ->
            UNION {StringNodesOf(node.fields[i].type) : i \in DOMAIN node.fields}
      [] node.kind = "union" ->
            UNION {StringNodesOf(node.types[i]) : i \in DOMAIN node.types}
      [] OTHER -> {}

\* the enum values of a String node as a set, absent taken as empty
EnumValueSet(s) == IF s.hasEnum THEN Range(s.enumValues) ELSE {}

\* C24: areTypesEqual on two String nodes is true exactly when their isDate
\* flags are equal and their enumValues hold the same set of values, whatever
\* the order, an absent enumValues taken as empty.
C24_StringEqualityComparesEnumsAsSets ==
    \A s \in StringNodesOf(ua) : \A t \in StringNodesOf(ub) :
        areTypesEqual(s, t) <=> (s.isDate = t.isDate /\ EnumValueSet(s) = EnumValueSet(t))

(***************************************************************************)
(* unifyTypes on node objects: a node is an object with an address, its    *)
(* children are references, and every statement of unifyTypes and          *)
(* normalizeUnionType reads, creates or changes objects                    *)
(***************************************************************************)
\* the outcome of an expression: the objects after it and the reference it gives
Outcome(h, addr) == [heap |-> h, addr |-> addr]

\* an object literal: a new object
Alloc(h, node) == Outcome(Append(h, node), Len(h) + 1)

RECURSIVE StoreTree(_, _)
RECURSIVE StoreTrees(_, _, _, _)
\* the objects of a list of trees, one after the other, and their references
StoreTrees(h, trees, i, addrs) ==
    IF i > Len(trees) THEN [heap |-> h, addrs |-> addrs]
    ELSE StoreTrees(StoreTree(h, trees[i]).heap, trees, i + 1,
                    Append(addrs, StoreTree(h, trees[i]).addr))

\* the objects inference has built for a tree
StoreTree(h, tree) ==
    CASE tree.kind = "array" ->
            Alloc(StoreTree(h, tree.items).heap,
                  [kind |-> "array", items |-> StoreTree(h, tree.items).addr])
      [] tree.kind = "union" ->
            Alloc(StoreTrees(h, tree.types, 1, <<>>).heap,
                  [kind |-> "union", types |-> StoreTrees(h, tree.types, 1, <<>>).addrs])
      [] tree.kind = "object" ->
            Alloc(StoreTrees(h, [i \in DOMAIN tree.fields |-> tree.fields[i].type], 1, <<>>).heap,
                  [kind |-> "object",
                   fields |-> [i \in DOMAIN tree.fields |->
                       FieldEntry(tree.fields[i].key,
                                  StoreTrees(h, [j \in DOMAIN tree.fields |-> tree.fields[j].type],
                                             1, <<>>).addrs[i],
                                  tree.fields[i].required)]])
      [] OTHER -> Alloc(h, tree)

RECURSIVE TreeAt(_, _)
\* the tree a reference stands for
TreeAt(h, addr) ==
    CASE h[addr].kind = "array" -> ArrayNode(TreeAt(h, h[addr].items))
      [] h[addr].kind = "union" ->
            UnionNode([i \in DOMAIN h[addr].types |-> TreeAt(h, h[addr].types[i])])
      [] h[addr].kind = "object" ->
            ObjectNode([i \in DOMAIN h[addr].fields |->
                FieldEntry(h[addr].fields[i].key, TreeAt(h, h[addr].fields[i].type),
                           h[addr].fields[i].required)])
      [] OTHER -> h[addr]

\* areTypesEqual reads its operands only
areTypesEqualAt(h, a, b) == areTypesEqual(TreeAt(h, a), TreeAt(h, b))

\* mutant: b is pushed onto a.types itself, which is then the list of the union
MutSpreadThenAppendPushesInPlace(h, a, b) ==
    [heap |-> [h EXCEPT ![a].types = Append(h[a].types, b)],
     types |-> Append(h[a].types, b)]

\* [...a.types, b]: a new list, a.types is read
SpreadThenAppend(h, a, b) == [heap |-> h, types |-> Append(h[a].types, b)]

\* [a, ...b.types]: a new list, b.types is read
PrependThenSpread(h, a, b) == [heap |-> h, types |-> <<a>> \o h[b].types]

RECURSIVE FlattenDedupeAt(_, _, _)
\* the loop of normalizeUnionType, flat being a new list
FlattenDedupeAt(h, types, flat) ==
    IF types = <<>> THEN flat
    ELSE IF h[Head(types)].kind = "union"
         THEN FlattenDedupeAt(h, Tail(types), flat \o h[Head(types)].types)
    ELSE IF ~(\E i \in DOMAIN flat : areTypesEqualAt(h, flat[i], Head(types)))
         THEN FlattenDedupeAt(h, Tail(types), Append(flat, Head(types)))
    ELSE FlattenDedupeAt(h, Tail(types), flat)

\* the end of normalizeUnionType: flat[0] or a new union
ReturnFlat(h, flat) ==
    IF Len(flat) = 1 THEN Outcome(h, flat[1])
    ELSE Alloc(h, [kind |-> "union", types |-> flat])

\* normalizeUnionType({ kind: "union", types })
normalizeUnionTypeAt(s) ==
    IF \E i \in DOMAIN s.types : s.heap[s.types[i]].kind = "any"
    THEN Alloc(s.heap, AnyNode)
    ELSE ReturnFlat(s.heap, FlattenDedupeAt(s.heap, s.types, <<>>))

\* { kind: "array", items: ... } around the unified items
WrapItems(r) == Alloc(r.heap, [kind |-> "array", items |-> r.addr])

\* unified.set(k, ...) for a key of both operands
SetUnified(unified, k, r, required) ==
    [heap |-> r.heap, fields |-> Append(unified, FieldEntry(k, r.addr, required))]

RECURSIVE unifyTypesAt(_, _, _)
RECURSIVE UnifyFieldsAt(_, _, _, _, _, _)
\* the next iteration after unified.set
UnifyFieldsStep(a, b, keys, i, s) == UnifyFieldsAt(s.heap, a, b, keys, i + 1, s.fields)

\* the loop over the keys of two objects, unified being a new Map
UnifyFieldsAt(h, a, b, keys, i, unified) ==
    IF i > Len(keys) THEN Alloc(h, [kind |-> "object", fields |-> unified])
    ELSE IF HasField(h[a].fields, keys[i]) /\ HasField(h[b].fields, keys[i])
         THEN UnifyFieldsStep(a, b, keys, i,
                 SetUnified(unified, keys[i],
                            unifyTypesAt(h, GetField(h[a].fields, keys[i]).type,
                                         GetField(h[b].fields, keys[i]).type),
                            RequiredBoth(GetField(h[a].fields, keys[i]),
                                         GetField(h[b].fields, keys[i]))))
    ELSE IF HasField(h[a].fields, keys[i])
         THEN UnifyFieldsAt(h, a, b, keys, i + 1,
                 Append(unified, FieldEntry(keys[i], GetField(h[a].fields, keys[i]).type,
                                            RequiredOneSide)))
    ELSE UnifyFieldsAt(h, a, b, keys, i + 1,
                 Append(unified, FieldEntry(keys[i], GetField(h[b].fields, keys[i]).type,
                                            RequiredOneSide)))

\* unifyTypes(a, b) on references
unifyTypesAt(h, a, b) ==
    IF areTypesEqualAt(h, a, b) THEN Outcome(h, a)
    ELSE IF h[a].kind = "any" \/ h[b].kind = "any" THEN Alloc(h, AnyNode)
    ELSE IF h[a].kind = "union" THEN normalizeUnionTypeAt(SpreadThenAppend(h, a, b))
    ELSE IF h[b].kind = "union" THEN normalizeUnionTypeAt(PrependThenSpread(h, a, b))
    ELSE IF h[a].kind = "string" /\ h[b].kind = "string"
         THEN Alloc(h, StringNode(MergedIsDate(h[a], h[b]),
                                  mergeStringLiterals(h[a], h[b]).hasEnum,
                                  mergeStringLiterals(h[a], h[b]).enumValues, FALSE, <<>>))
    ELSE IF h[a].kind = "array" /\ h[b].kind = "array"
         THEN WrapItems(unifyTypesAt(h, h[a].items, h[b].items))
    ELSE IF h[a].kind = "object" /\ h[b].kind = "object"
         THEN UnifyFieldsAt(h, a, b,
                            Unique(FieldKeys(h[a].fields) \o FieldKeys(h[b].fields)), 1, <<>>)
    ELSE normalizeUnionTypeAt([heap |-> h, types |-> <<a, b>>])

\* values whose inferred nodes, and their item types, are the operands
HeapSampleValues ==
    {JNull, JNumber, JString(sA), JString(sDate),
     JObject(<<<<kB, JNumber>>, <<kA, JNumber>>>>),
     JObject(<<<<kA, JArray(<<JNumber, JString(sA)>>)>>>>),
     JArray(<<JNumber, JString(sA)>>), JArray(<<JString(sA), JBoolean>>),
     JArray(<<JString(sA), JString(sB)>>),
     JArray(<<JObject(<<<<kA, JString(sA)>>>>)>>)}

HeapSampleNodes ==
    LET inferred == {inferTypeFromValue(v, InferOptions(TRUE, 2, 12)) : v \in HeapSampleValues}
    IN  inferred \cup {n.items : n \in {m \in inferred : m.kind = "array"}}

\* the operands as two trees of objects, or as one object passed twice
OperandsStored(sa, sb, shared) ==
    /\ heap = (IF shared THEN sa.heap ELSE sb.heap)
    /\ ha = sa.addr
    /\ hb = (IF shared THEN sa.addr ELSE sb.addr)

StoreSecond(sa, tb, shared) == OperandsStored(sa, StoreTree(sa.heap, tb), shared)

InitHeap ==
    /\ UnifyIdle
    /\ RunIdle
    /\ calls = <<>>
    /\ TelemetryIdle
    /\ InputIdle
    /\ MainIdle
    /\ \E ta \in HeapSampleNodes, tb \in HeapSampleNodes, shared \in BOOLEAN :
          /\ shared => ta = tb
          /\ StoreSecond(StoreTree(<<>>, ta), tb, shared)
    /\ hr = 0
    /\ hpc = "ready"

\* what a call leaves: the objects and the returned reference
ReturnOutcome(r) ==
    /\ heap' = r.heap
    /\ hr' = r.addr

\* one call unifyTypes(a, b)
UnifyAt ==
    /\ hpc = "ready"
    /\ ReturnOutcome(unifyTypesAt(heap, ha, hb))
    /\ hpc' = "unified"
    /\ UNCHANGED <<ha, hb>>
    /\ UNCHANGED <<runVars, unifyVars, callVars, telemetryVars, inputVars, mainVars>>

\* the next element's node is the second operand
NextOperand(s) ==
    /\ heap' = s.heap
    /\ hb' = s.addr

\* the next iteration of the reduce: the returned object is the accumulator
FoldNextAt ==
    /\ hpc = "unified"
    /\ folds < MaxFolds
    /\ folds' = folds + 1
    /\ ha' = hr
    /\ \E tb \in HeapSampleNodes : NextOperand(StoreTree(heap, tb))
    /\ hr' = 0
    /\ hpc' = "ready"
    /\ UNCHANGED <<upc, ua, ub, ur>>
    /\ UNCHANGED <<runVars, callVars, telemetryVars, inputVars, mainVars>>

\* renderTypescriptFromTree on the returned tree
RenderAt ==
    /\ hpc = "unified"
    /\ ReturnRendered(renderTypescriptFromTree(User, FALSE, TreeAt(heap, hr)))
    /\ hpc' = "rendered"
    /\ UNCHANGED <<heap, ha, hb, hr>>
    /\ UNCHANGED <<pc, value, options, rootTypeName, useInterfaceKeyword, inferredTypeTree>>
    /\ UNCHANGED <<unifyVars, callVars, telemetryVars, inputVars, mainVars>>

NextHeap == UnifyAt \/ FoldNextAt \/ RenderAt

SpecHeap == InitHeap /\ [][NextHeap]_vars

\* C25: TypeNodes are never mutated after construction: neither unifyTypes,
\* on either operand and on the field maps and member lists it reuses, nor
\* renderTypescriptFromTree changes the kind, payload, fields or members of a
\* node that exists; and the objects unifyTypes returns stand for the tree of
\* unifyTypes on the operands' trees.
C25_NodesAreNeverMutated ==
    [][/\ \A i \in DOMAIN heap : heap'[i] = heap[i]
       /\ hpc' = "unified" =>
             TreeAt(heap', hr') = unifyTypes(TreeAt(heap, ha), TreeAt(heap, hb))]_vars

\* unifyTypes has returned a new union that shares members with its first
\* operand, a union, and the result has been rendered
C25_Witness ==
    /\ hpc = "rendered"
    /\ hr \notin {ha, hb}
    /\ heap[ha].kind = "union"
    /\ heap[hr].kind = "union"
    /\ \E i \in DOMAIN heap[hr].types : heap[hr].types[i] \in Range(heap[ha].types)

RECURSIVE Conforms(_, _)
\* a JSON value is accepted by a type node
Conforms(v, node) ==
    CASE node.kind = "any" -> TRUE
      [] node.kind = "number" -> v.t = "number"
      [] node.kind = "boolean" -> v.t = "boolean"
      [] node.kind = "string" ->
            /\ v.t = "string"
            /\ node.hasEnum => v.s \in Range(node.enumValues)
      [] node.kind = "array" ->
            /\ v.t = "array"
            /\ \A i \in DOMAIN v.elems : Conforms(v.elems[i], node.items)
      [] node.kind = "object" ->
            /\ v.t = "object"
            /\ \A i \in DOMAIN node.fields :
                  node.fields[i].required =>
                     \E j \in DOMAIN v.entries : v.entries[j][1] = node.fields[i].key
            /\ \A j \in DOMAIN v.entries :
                  /\ HasField(node.fields, v.entries[j][1])
                  /\ Conforms(v.entries[j][2], GetField(node.fields, v.entries[j][1]).type)
      [] node.kind = "union" ->
            \E i \in DOMAIN node.types : Conforms(v, node.types[i])
      [] OTHER -> FALSE

\* C26: inference is sound: every JSON value conforms to the type inferred for
\* it; in particular an enum String unified with a plain String never gives a
\* type that rejects the plain sample.
C26_InferredTypeAcceptsValue ==
    Inferred => Conforms(value, inferredTypeTree)

\* a union has at most one member of a kind
AtMostOneOfKind(union, kind) ==
    \A i \in DOMAIN union.types : \A j \in DOMAIN union.types :
        (union.types[i].kind = kind /\ union.types[j].kind = kind) => i = j

\* C27: in every tree returned by inferTypeFromValue a Union has at most one
\* member of each of the kinds string, array and object: samples of one
\* mergeable kind are merged into one member, also when the accumulated type is
\* already a union.
C27_UnionHasOneMemberPerMergeableKind ==
    Inferred =>
        \A u \in UnionsOf(inferredTypeTree) :
            \A k \in {"string", "array", "object"} : AtMostOneOfKind(u, k)

\* the orders in which n elements can be arranged
Orders(n) == {p \in [1..n -> 1..n] : \A i \in 1..n : \A j \in 1..n : p[i] = p[j] => i = j}

\* C28: the item type inferred for an array does not depend on the order of
\* its elements: for every arrangement of the elements the inferred type is the
\* same up to the order of union members, enum values and fields.
C28_ItemTypeIndependentOfElementOrder ==
    (Inferred /\ value.t = "array") =>
        \A p \in Orders(Len(value.elems)) :
            SameShape(inferTypeFromValue(JArray([i \in DOMAIN value.elems |-> value.elems[p[i]]]),
                                         options),
                      inferredTypeTree)

RECURSIVE HasTopLevelBar(_, _, _)
\* a type text holds a | outside parentheses, braces and string literals;
\* nesting counts the open brackets, quoted tells whether a literal is open
HasTopLevelBar(text, nesting, quoted) ==
    IF text = <<>> THEN FALSE
    ELSE IF quoted
         THEN IF Head(text) = "\\" THEN HasTopLevelBar(Tail(Tail(text)), nesting, TRUE)
              ELSE HasTopLevelBar(Tail(text), nesting, Head(text) # "\"")
    ELSE IF Head(text) = "\"" THEN HasTopLevelBar(Tail(text), nesting, TRUE)
    ELSE IF Head(text) \in {"(", "{"} THEN HasTopLevelBar(Tail(text), nesting + 1, FALSE)
    ELSE IF Head(text) \in {")", "}"} THEN HasTopLevelBar(Tail(text), nesting - 1, FALSE)
    ELSE IF Head(text) = "|" /\ nesting = 0 THEN TRUE
    ELSE HasTopLevelBar(Tail(text), nesting, FALSE)

\* the Array nodes of the inferred tree, with their paths
ArraySites == {site \in Sites(inferredTypeTree, <<>>) : site.node.kind = "array"}

\* the text the renderer gives the item type of an array
ItemText(site) == ExpectedTypeText(site.node.items, site.path \o <<ItemsStep>>)

\* C29: whenever the text of an array's item type is an alternation with a
\* top-level |, it is put in parentheses before [] is appended; an array of
\* date-flagged strings is rendered (string | Date)[].
C29_AlternationItemsAreParenthesized ==
    Rendered =>
        \A site \in ArraySites :
            HasTopLevelBar(ItemText(site), 0, FALSE) =>
                Contains(tsText, <<"(">> \o ItemText(site) \o <<")", "[", "]">>)


\* C30: every type name emitted for a hoisted declaration is a valid
\* TypeScript identifier, [A-Za-z_][A-Za-z0-9_]*, for every JSON field key:
\* with dashes or spaces, starting with a digit, or singularized to nothing.
C30_HoistedNamesAreIdentifiers ==
    Rendered =>
        \A i \in DOMAIN objectNodeToTypeName :
            isValidTypescriptIdentifier(objectNodeToTypeName[i].name)
=============================================================================
